---- MODULE Spec2Model ----
(***************************************************************************)
(* A model of the OSS investment dashboard: the SQLite snapshot ledger and *)
(* growth calculator (database.py), the heuristic scorers (analysis.py)    *)
(* and the refresh cycle and enrichment pipeline (dashboard_v2.py).        *)
(*                                                                         *)
(* Conventions.                                                            *)
(*   - A Python value that may be None is None == <<>> or Some(v) == <<v>>.*)
(*   - A calendar date is a day number; SQLite stores dates as ISO-8601    *)
(*     text, whose lexicographic order is the order of the day numbers.    *)
(*   - A REAL percentage rounded to 2 decimals is kept in hundredths of a  *)
(*     percent (20.0 is 2000).                                             *)
(*   - A table is the set of its rows; the AUTOINCREMENT id and the        *)
(*     CURRENT_TIMESTAMP columns, which no query of the program reads,     *)
(*     are left out of the rows.                                           *)
(***************************************************************************)
EXTENDS Integers, Sequences, FiniteSets, TLC

VARIABLES
    today,           \* datetime.now().date(), as a day number
    repos,           \* table repos
    snapshots,       \* table snapshots
    growth_metrics,  \* table growth_metrics
    app_state,       \* the global app_state of dashboard_v2.py
    threads,         \* the threads started for fetch_data, in order of creation
    resp,            \* the last HTTP response written by DashboardHandler
    ret,             \* the last call of the database API and what it returned
    args             \* arguments and result of the last pure-function call

vars == <<today, repos, snapshots, growth_metrics, app_state, threads, resp, ret, args>>

\* the state of the web process, which the store and the pure-function
\* specifications leave alone
web == <<repos, app_state, threads, resp>>

----------------------------------------------------------------------------
(* Optional values *)

None == <<>>
Some(v) == <<v>>
Val(x) == x[1]
\* Python's `x or 0` for an optional number
OrZero(x) == IF x = None THEN 0 ELSE Val(x)

----------------------------------------------------------------------------
(* Bounds of the model *)

\* the clock stops advancing at this day
MaxDay == 30
\* no new snapshot key is written once the table holds this many rows
MaxRows == 2
\* no new growth key is written once the table holds this many rows
MaxGrowthRows == 2
\* the largest metric value tried by the growth-rate specification
MaxCount == 12

\* days by which the clock advances between two calls
DayJumps == {10, 20}
\* days by which the clock advances while the web process runs
MonthJumps == {30}
\* repository ids
RepoIds == {1, 2}

----------------------------------------------------------------------------
(* database.py: calculate_growth_rate *)

\* round(n / d) to the nearest integer for d > 0, an exact tie going to the
\* even neighbour, as Python's round() does on the exact value
RoundHalfEven(n, d) ==
    LET q == n \div d
        r == n - q * d
    IN  IF 2 * r < d THEN q
        ELSE IF 2 * r > d THEN q + 1
        ELSE IF q % 2 = 0 THEN q ELSE q + 1

\* A plausible slip: a previous value of 0 answers 0 percent instead of None.
growth_rate_zero_for_zero(current, previous) ==
    IF previous = None THEN None
    ELSE IF current = None THEN None
    ELSE IF Val(previous) = 0 THEN Some(0)
    ELSE Some(RoundHalfEven((Val(current) - Val(previous)) * 10000, Val(previous)))

\* the result is in hundredths of a percent
calculate_growth_rate(current, previous) ==
    IF previous = None \/ previous = Some(0) THEN None
    ELSE IF current = None THEN None
    ELSE Some(RoundHalfEven((Val(current) - Val(previous)) * 10000, Val(previous)))

----------------------------------------------------------------------------
(* database.py: the snapshots and growth_metrics tables *)

\* the metric records handed to save_snapshot by the store specification
StoreInputs ==
    { [stars |-> Some(0), forks |-> None, contributors |-> Some(1), dependents |-> None,
       downloads |-> None, download_source |-> None, commits_3mo |-> Some(5),
       prs_30d |-> Some(0), issues_30d |-> None],
      [stars |-> Some(100), forks |-> Some(0), contributors |-> Some(4), dependents |-> Some(2),
       downloads |-> Some(32), download_source |-> Some("npm/week"), commits_3mo |-> Some(40),
       prs_30d |-> Some(6), issues_30d |-> Some(3)],
      [stars |-> Some(120), forks |-> Some(9), contributors |-> None, dependents |-> Some(3),
       downloads |-> Some(33), download_source |-> Some("pypi/week"), commits_3mo |-> Some(45),
       prs_30d |-> Some(7), issues_30d |-> Some(1)] }

\* the row save_snapshot writes: the VALUES tuple of its INSERT
SnapshotRow(repo_id, date, metrics) ==
    [repo_id |-> repo_id, snapshot_date |-> date,
     stars |-> metrics.stars, forks |-> metrics.forks,
     contributors |-> metrics.contributors, dependents |-> metrics.dependents,
     downloads |-> metrics.downloads, download_source |-> metrics.download_source,
     commits_30d |-> metrics.commits_3mo, prs_30d |-> metrics.prs_30d,
     issues_30d |-> metrics.issues_30d]

\* UNIQUE(repo_id, snapshot_date)
SnapshotKey(row) == <<row.repo_id, row.snapshot_date>>
\* UNIQUE(repo_id, calculated_at)
GrowthKey(row) == <<row.repo_id, row.calculated_at>>

\* A plain INSERT: a row that conflicts on the UNIQUE key raises
\* sqlite3.IntegrityError and the table is left as it was.
InsertPlainSnapshot(table, row) ==
    IF \E r \in table : SnapshotKey(r) = SnapshotKey(row)
    THEN [table |-> table, error |-> TRUE]
    ELSE [table |-> table \cup {row}, error |-> FALSE]

\* INSERT OR REPLACE INTO snapshots: the rows that conflict on the UNIQUE key
\* are deleted, then the row is inserted
InsertOrReplaceSnapshot(table, row) ==
    [table |-> {r \in table : SnapshotKey(r) # SnapshotKey(row)} \cup {row},
     error |-> FALSE]

\* A plain INSERT without the UNIQUE key: the row is added beside the old one.
InsertPlainGrowth(table, row) == table \cup {row}

\* INSERT OR REPLACE INTO growth_metrics
InsertOrReplaceGrowth(table, row) ==
    {r \in table : GrowthKey(r) # GrowthKey(row)} \cup {row}

\* ORDER BY snapshot_date DESC
RECURSIVE OrderByDateDesc(_)
OrderByDateDesc(rows) ==
    IF rows = {} THEN <<>>
    ELSE LET first == CHOOSE r \in rows :
                          \A o \in rows : o.snapshot_date <= r.snapshot_date
         IN  <<first>> \o OrderByDateDesc(rows \ {first})

\* A plausible slip: the comparison is strict, so a snapshot dated exactly
\* `date` is missed.
get_snapshot_strictly_before(snaps, repo_id, date) ==
    LET rows == OrderByDateDesc({r \in snaps :
                    r.repo_id = repo_id /\ r.snapshot_date < date})
    IN  IF rows = <<>> THEN None ELSE Some(Head(rows))

\* A plausible slip: the WHERE clause leaves out the repository.
get_snapshot_of_any_repo(snaps, repo_id, date) ==
    LET rows == OrderByDateDesc({r \in snaps : r.snapshot_date <= date})
    IN  IF rows = <<>> THEN None ELSE Some(Head(rows))

\* A plausible slip: the date bound is left out, so the repository's latest
\* snapshot answers for every date.
get_snapshot_latest(snaps, repo_id, date) ==
    LET rows == OrderByDateDesc({r \in snaps : r.repo_id = repo_id})
    IN  IF rows = <<>> THEN None ELSE Some(Head(rows))

\* SELECT * FROM snapshots WHERE repo_id = ? AND snapshot_date <= ?
\* ORDER BY snapshot_date DESC LIMIT 1
get_snapshot_near(snaps, repo_id, date) ==
    LET rows == OrderByDateDesc({r \in snaps :
                    r.repo_id = repo_id /\ r.snapshot_date <= date})
    IN  IF rows = <<>> THEN None ELSE Some(Head(rows))

\* A plausible slip: last week's growth is taken against the current
\* snapshot's neighbour in the wrong order.
StarsAccelerationSwapped(stars_wow, week_ago_snap, two_weeks_snap) ==
    IF week_ago_snap # None /\ two_weeks_snap # None
    THEN LET prev_wow == calculate_growth_rate(Val(two_weeks_snap).stars,
                                               Val(week_ago_snap).stars)
         IN  IF stars_wow # None /\ prev_wow # None
             THEN Some(Val(stars_wow) - Val(prev_wow))
             ELSE None
    ELSE None

\* "Acceleration: compare this week's growth to last week's growth";
\* round(a - b, 2) of two values with 2 decimals is their difference
StarsAcceleration(stars_wow, week_ago_snap, two_weeks_snap) ==
    IF week_ago_snap # None /\ two_weeks_snap # None
    THEN LET prev_wow == calculate_growth_rate(Val(week_ago_snap).stars,
                                               Val(two_weeks_snap).stars)
         IN  IF stars_wow # None /\ prev_wow # None
             THEN Some(Val(stars_wow) - Val(prev_wow))
             ELSE None
    ELSE None

\* the dict calculate_growth_metrics builds and returns, or None when the
\* repository has no snapshot dated on or before `date`
GrowthOf(snaps, repo_id, date) ==
    LET week_ago        == date - 7
        two_weeks_ago   == date - 14
        month_ago       == date - 30
        current         == get_snapshot_near(snaps, repo_id, date)
        week_ago_snap   == get_snapshot_near(snaps, repo_id, week_ago)
        two_weeks_snap  == get_snapshot_near(snaps, repo_id, two_weeks_ago)
        month_ago_snap  == get_snapshot_near(snaps, repo_id, month_ago)
        cur             == Val(current)
        wow(m)  == IF week_ago_snap # None
                   THEN calculate_growth_rate(cur[m], Val(week_ago_snap)[m])
                   ELSE None
        mom(m)  == IF month_ago_snap # None
                   THEN calculate_growth_rate(cur[m], Val(month_ago_snap)[m])
                   ELSE None
    IN  IF current = None THEN None
        ELSE Some([repo_id |-> repo_id, calculated_at |-> date,
                   stars_wow |-> wow("stars"), stars_mom |-> mom("stars"),
                   stars_acceleration |->
                       StarsAcceleration(wow("stars"), week_ago_snap, two_weeks_snap),
                   forks_wow |-> wow("forks"), forks_mom |-> mom("forks"),
                   downloads_wow |-> wow("downloads"),
                   downloads_mom |-> mom("downloads"),
                   contributors_wow |-> wow("contributors"),
                   contributors_mom |-> mom("contributors")])

\* the row calculate_growth_metrics writes: the two score columns are not
\* among the INSERT's columns and are NULL
GrowthRow(g) ==
    [repo_id |-> g.repo_id, calculated_at |-> g.calculated_at,
     stars_wow |-> g.stars_wow, stars_mom |-> g.stars_mom,
     stars_acceleration |-> g.stars_acceleration,
     forks_wow |-> g.forks_wow, forks_mom |-> g.forks_mom,
     downloads_wow |-> g.downloads_wow, downloads_mom |-> g.downloads_mom,
     contributors_wow |-> g.contributors_wow,
     contributors_mom |-> g.contributors_mom,
     traction_score |-> None, investability_score |-> None]

\* the growth_metrics table after calculate_growth_metrics(repo_id) on `date`
GrowthTableAfter(table, snaps, repo_id, date) ==
    LET g == GrowthOf(snaps, repo_id, date)
    IN  IF g = None THEN table
        ELSE InsertOrReplaceGrowth(table, GrowthRow(Val(g)))

----------------------------------------------------------------------------
(* dashboard_v2.py: the state of the web process after main() has loaded   *)
(* an empty database                                                       *)

\* app_state as the module defines it; "unique_repos_tracked" is the key
\* fetch_data adds, None until then
InitialAppState ==
    [repos |-> <<>>, last_updated |-> None, is_loading |-> FALSE,
     snapshot_count |-> 0, unique_repos_tracked |-> None,
     progress |-> [current |-> 0, total |-> 0, current_repo |-> <<>>, phase |-> "idle"],
     stats |-> [total_repos |-> 0, npm_tracked |-> 0, pypi_tracked |-> 0,
                crates_tracked |-> 0, by_language |-> <<>>, by_category |-> <<>>],
     filters |-> [exclude_big_tech |-> TRUE, category |-> "all", min_stars |-> 0,
                  funding_status |-> "all"]]

NoResponse == [path |-> "none", status |-> 0, body |-> "none"]

InitWeb ==
    /\ repos = {}
    /\ app_state = InitialAppState
    /\ threads = <<>>
    /\ resp = NoResponse

----------------------------------------------------------------------------
(* The store specification: the database API called in any order *)

NoCall == [op |-> "none", repo_id |-> 0, date |-> 0, metrics |-> None,
           replaced |-> FALSE, error |-> FALSE, result |-> None]
NoArgs == [fn |-> "none"]

InitStore ==
    /\ today = 0
    /\ snapshots = {}
    /\ growth_metrics = {}
    /\ ret = NoCall
    /\ InitWeb
    /\ args = NoArgs

\* the clock moves on by d days
AdvanceDayBy(d) ==
    /\ today + d <= MaxDay
    /\ today' = today + d
    /\ ret' = NoCall
    /\ UNCHANGED <<snapshots, growth_metrics, args, web>>

\* the clock moves on between two calls
AdvanceDay == \E d \in DayJumps : AdvanceDayBy(d)

save_snapshot(repo_id, metrics) ==
    LET row == SnapshotRow(repo_id, today, metrics)
        had == {r \in snapshots : SnapshotKey(r) = SnapshotKey(row)}
        ins == InsertOrReplaceSnapshot(snapshots, row)
    IN  /\ had # {} \/ Cardinality(snapshots) < MaxRows
        /\ snapshots' = ins.table
        /\ ret' = [op |-> "save_snapshot", repo_id |-> repo_id, date |-> today,
                   metrics |-> Some(metrics), replaced |-> (had \ {row} # {}),
                   error |-> ins.error, result |-> None]
        /\ UNCHANGED <<today, growth_metrics, args, web>>

calculate_growth_metrics(repo_id) ==
    LET had == {r \in growth_metrics : GrowthKey(r) = <<repo_id, today>>}
        g   == GrowthOf(snapshots, repo_id, today)
    IN  /\ had # {} \/ g = None \/ Cardinality(growth_metrics) < MaxGrowthRows
        /\ growth_metrics' = GrowthTableAfter(growth_metrics, snapshots, repo_id, today)
        /\ ret' = [op |-> "calculate_growth_metrics", repo_id |-> repo_id,
                   date |-> today, metrics |-> None,
                   replaced |-> (g # None /\ had \ {GrowthRow(Val(g))} # {}),
                   error |-> FALSE, result |-> g]
        /\ UNCHANGED <<today, snapshots, args, web>>

SaveSnapshot == \E repo_id \in RepoIds, metrics \in StoreInputs : save_snapshot(repo_id, metrics)
CalculateGrowthMetrics == \E repo_id \in RepoIds : calculate_growth_metrics(repo_id)

NextStore == AdvanceDay \/ SaveSnapshot \/ CalculateGrowthMetrics

SpecStore == InitStore /\ [][NextStore]_vars

\* the rows of a table held under one key
SnapshotsAt(table, repo_id, date) ==
    {r \in table : SnapshotKey(r) = <<repo_id, date>>}
GrowthAt(table, repo_id, date) ==
    {r \in table : GrowthKey(r) = <<repo_id, date>>}
\* the dates a read is probed with
ProbeDates == (0 - 61)..(MaxDay + 1)

\* C1: the snapshots table never holds two rows for one (repository, date),
\* and after save_snapshot the only row under the written key carries exactly
\* the metric values of that call, which raised no error.
C1_UpsertLastWriteWins ==
    /\ \A r1 \in snapshots, r2 \in snapshots :
           SnapshotKey(r1) = SnapshotKey(r2) => r1 = r2
    /\ ret.op = "save_snapshot" =>
           /\ ~ret.error
           /\ SnapshotsAt(snapshots, ret.repo_id, ret.date)
                 = {SnapshotRow(ret.repo_id, ret.date, Val(ret.metrics))}

\* a save_snapshot that found a row with other values under its key
C1_Witness == ret.op = "save_snapshot" /\ ret.replaced

\* C4: for every repository and date D, get_snapshot_near answers None exactly
\* when the repository has no snapshot dated on or before D, and otherwise a
\* snapshot of that repository dated on or before D than which the repository
\* has none later that is still on or before D.
C4_NearestOnOrBefore ==
    \A repo_id \in RepoIds, D \in ProbeDates :
        LET res  == get_snapshot_near(snapshots, repo_id, D)
            mine == {r \in snapshots : r.repo_id = repo_id /\ r.snapshot_date <= D}
        IN  /\ (res = None) <=> (mine = {})
            /\ res # None =>
                  /\ Val(res) \in snapshots
                  /\ Val(res).repo_id = repo_id
                  /\ Val(res).snapshot_date <= D
                  /\ \A o \in mine : o.snapshot_date <= Val(res).snapshot_date

\* a growth calculation whose week-ago read fell back to a snapshot dated
\* before the date asked for, the repository holding a later snapshot too
C4_Witness ==
    /\ ret.op = "calculate_growth_metrics"
    /\ LET w == get_snapshot_near(snapshots, ret.repo_id, ret.date - 7)
       IN  /\ w # None
           /\ Val(w).snapshot_date < ret.date - 7
           /\ \E r \in snapshots : r.repo_id = ret.repo_id
                                    /\ r.snapshot_date > ret.date - 7

\* C5: the stars acceleration a growth calculation returns is its stars WoW
\* minus the growth of the snapshot nearest T-7 over the snapshot nearest T-14,
\* it is None when either growth is undefined, and stars_acceleration is the
\* only acceleration field of the result.
C5_Acceleration ==
    (ret.op = "calculate_growth_metrics" /\ ret.result # None) =>
        LET g        == Val(ret.result)
            w        == get_snapshot_near(snapshots, ret.repo_id, ret.date - 7)
            tw       == get_snapshot_near(snapshots, ret.repo_id, ret.date - 14)
            wow_prev == IF w = None \/ tw = None THEN None
                        ELSE calculate_growth_rate(Val(w).stars, Val(tw).stars)
        IN  /\ g.stars_acceleration =
                   IF g.stars_wow = None \/ wow_prev = None THEN None
                   ELSE Some(Val(g.stars_wow) - Val(wow_prev))
            /\ DOMAIN g = {"repo_id", "calculated_at", "stars_wow", "stars_mom",
                           "stars_acceleration", "forks_wow", "forks_mom",
                           "downloads_wow", "downloads_mom",
                           "contributors_wow", "contributors_mom"}

\* a growth calculation that returned an acceleration from two growth values
\* that differ
C5_Witness ==
    /\ ret.op = "calculate_growth_metrics"
    /\ ret.result # None
    /\ Val(ret.result).stars_acceleration # None
    /\ Val(ret.result).stars_acceleration # Val(ret.result).stars_wow

\* C6: a growth calculation for a repository with no snapshot dated on or
\* before its date returns None and leaves the growth_metrics table as it was.
C6_NoSnapshotNoRecord ==
    [][ ( /\ ret'.op = "calculate_growth_metrics"
          /\ \A r \in snapshots :
                 ~(r.repo_id = ret'.repo_id /\ r.snapshot_date <= ret'.date) )
        => ( ret'.result = None /\ growth_metrics' = growth_metrics ) ]_vars

\* such a calculation, made while the table holds another repository's
\* snapshot and growth record
C6_Witness ==
    /\ ret.op = "calculate_growth_metrics"
    /\ ret.result = None
    /\ snapshots # {}
    /\ growth_metrics # {}

\* C7: the growth_metrics table never holds two rows for one (repository,
\* date); a growth calculation leaves under its key exactly the row it
\* computed, and the repository's rows for earlier dates are the same before
\* and after it.
C7_GrowthRecordReplaced ==
    [][ /\ \A r1 \in growth_metrics', r2 \in growth_metrics' :
               GrowthKey(r1) = GrowthKey(r2) => r1 = r2
        /\ (ret'.op = "calculate_growth_metrics" /\ ret'.result # None) =>
               /\ GrowthAt(growth_metrics', ret'.repo_id, ret'.date)
                     = {GrowthRow(Val(ret'.result))}
               /\ {r \in growth_metrics' : r.repo_id = ret'.repo_id
                                            /\ r.calculated_at < ret'.date}
                     = {r \in growth_metrics : r.repo_id = ret'.repo_id
                                              /\ r.calculated_at < ret'.date} ]_vars

\* a recalculation that replaced the record of its date while the repository
\* holds a record of an earlier date
C7_Witness ==
    /\ ret.op = "calculate_growth_metrics"
    /\ ret.replaced
    /\ \E r \in growth_metrics : r.repo_id = ret.repo_id
                                   /\ r.calculated_at < ret.date

----------------------------------------------------------------------------
(* The growth-rate specification: calculate_growth_rate on bounded inputs *)

\* the counts tried: absent, 0..MaxCount, and those of the documented examples
GrowthRateInputs ==
    {None} \cup {Some(n) : n \in 0..MaxCount} \cup {Some(80), Some(100), Some(120)}

InitGrowthRate ==
    /\ today = 0
    /\ snapshots = {}
    /\ growth_metrics = {}
    /\ ret = NoCall
    /\ InitWeb
    /\ \E current \in GrowthRateInputs, previous \in GrowthRateInputs :
           args = [fn |-> "input", current |-> current, previous |-> previous,
                   result |-> None]

CallGrowthRate ==
    /\ args.fn = "input"
    /\ args' = [args EXCEPT !.fn = "calculate_growth_rate",
                            !.result = calculate_growth_rate(args.current, args.previous)]
    /\ UNCHANGED <<today, snapshots, growth_metrics, ret, web>>

NextGrowthRate == CallGrowthRate

SpecGrowthRate == InitGrowthRate /\ [][NextGrowthRate]_vars

\* C3: calculate_growth_rate answers None when the previous value is absent
\* or 0 or the current value is absent; otherwise it answers the percentage
\* (current - previous) / previous * 100 to within half a hundredth, and
\* 20.00 for current 120 and previous 100.
C3_GrowthRate ==
    args.fn = "calculate_growth_rate" =>
        LET c == args.current
            p == args.previous
            r == args.result
            e == Val(r) * Val(p) - 10000 * (Val(c) - Val(p))
        IN  IF p = None \/ p = Some(0) \/ c = None
            THEN r = None
            ELSE /\ r # None
                 /\ 2 * e <= Val(p)
                 /\ 2 * e >= 0 - Val(p)
                 /\ (c = Some(120) /\ p = Some(100)) => r = Some(2000)

\* the call with a current value of 120 and a previous value of 100
C3_Witness ==
    /\ args.fn = "calculate_growth_rate"
    /\ args.current = Some(120)
    /\ args.previous = Some(100)
    /\ args.result # None

----------------------------------------------------------------------------
(* analysis.py: text                                                       *)
(* A str is the sequence of its characters; an optional str is None or     *)
(* Some(text), so that the empty str Some(<<>>) is not None.               *)

UpperToLower ==
    ("A" :> "a") @@ ("B" :> "b") @@ ("C" :> "c") @@ ("D" :> "d") @@ ("E" :> "e") @@
    ("F" :> "f") @@ ("G" :> "g") @@ ("H" :> "h") @@ ("I" :> "i") @@ ("J" :> "j") @@
    ("K" :> "k") @@ ("L" :> "l") @@ ("M" :> "m") @@ ("N" :> "n") @@ ("O" :> "o") @@
    ("P" :> "p") @@ ("Q" :> "q") @@ ("R" :> "r") @@ ("S" :> "s") @@ ("T" :> "t") @@
    ("U" :> "u") @@ ("V" :> "v") @@ ("W" :> "w") @@ ("X" :> "x") @@ ("Y" :> "y") @@
    ("Z" :> "z")

\* str.lower()
Lower(text) ==
    [i \in 1..Len(text) |->
        IF text[i] \in DOMAIN UpperToLower THEN UpperToLower[text[i]] ELSE text[i]]

\* `pattern in text`
Contains(pattern, text) ==
    \E i \in 0..(Len(text) - Len(pattern)) :
        SubSeq(text, i + 1, i + Len(pattern)) = pattern

\* text[:n]
Prefix(text, n) == SubSeq(text, 1, IF Len(text) < n THEN Len(text) ELSE n)

\* " ".join(texts)
RECURSIVE JoinWithSpace(_)
JoinWithSpace(texts) ==
    IF texts = <<>> THEN <<>>
    ELSE IF Len(texts) = 1 THEN texts[1]
    ELSE texts[1] \o <<" ">> \o JoinWithSpace(Tail(texts))

\* the truth value of an optional str: neither None nor ''
Truthy(s) == s # None /\ Val(s) # <<>>
\* `s or ''`
OrEmpty(s) == IF s = None THEN <<>> ELSE Val(s)

\* the index of the first of `patterns` that occurs in `text`, 0 when none does
FirstMatch(patterns, text) ==
    IF \E i \in 1..Len(patterns) : Contains(patterns[i], text)
    THEN CHOOSE i \in 1..Len(patterns) :
            /\ Contains(patterns[i], text)
            /\ \A j \in 1..(i - 1) : ~Contains(patterns[j], text)
    ELSE 0

\* the number of `keywords` that occur in `text`
CountMatches(keywords, text) ==
    Cardinality({i \in 1..Len(keywords) : Contains(keywords[i], text)})

----------------------------------------------------------------------------
(* analysis.py: the curated tables *)

\* BIG_TECH_ORGS
BIG_TECH_ORGS ==
    {<<"a", "d", "o", "b", "e">>,
     <<"a", "i", "r", "b", "n", "b">>,
     <<"a", "l", "i", "b", "a", "b", "a">>,
     <<"a", "l", "i", "b", "a", "b", "a", "r", "e", "s", "e", "a", "r", "c", "h">>,
     <<"a", "l", "p", "h", "a", "b", "e", "t">>,
     <<"a", "m", "a", "z", "o", "n">>,
     <<"a", "m", "d">>,
     <<"a", "n", "g", "u", "l", "a", "r">>,
     <<"a", "n", "t", "h", "r", "o", "p", "i", "c">>,
     <<"a", "n", "t", "h", "r", "o", "p", "i", "c", "s">>,
     <<"a", "p", "p", "l", "e">>,
     <<"a", "t", "l", "a", "s", "s", "i", "a", "n">>,
     <<"a", "w", "s">>,
     <<"a", "z", "u", "r", "e">>,
     <<"a", "z", "u", "r", "e", "-", "s", "a", "m", "p", "l", "e", "s">>,
     <<"b", "a", "i", "d", "u">>,
     <<"b", "l", "o", "c", "k">>,
     <<"b", "y", "t", "e", "d", "a", "n", "c", "e">>,
     <<"c", "a", "n", "o", "n", "i", "c", "a", "l">>,
     <<"c", "h", "r", "o", "m", "e", "d", "e", "v", "t", "o", "o", "l", "s">>,
     <<"c", "h", "r", "o", "m", "i", "u", "m">>,
     <<"c", "i", "s", "c", "o">>,
     <<"c", "l", "o", "u", "d", "e", "r", "a">>,
     <<"c", "l", "o", "u", "d", "f", "l", "a", "r", "e">>,
     <<"c", "o", "h", "e", "r", "e">>,
     <<"c", "o", "n", "f", "l", "u", "e", "n", "t">>,
     <<"d", "a", "t", "a", "b", "r", "i", "c", "k", "s">>,
     <<"d", "a", "t", "a", "d", "o", "g">>,
     <<"d", "e", "e", "p", "m", "i", "n", "d">>,
     <<"d", "e", "e", "p", "s", "e", "e", "k", "-", "a", "i">>,
     <<"d", "i", "g", "i", "t", "a", "l", "o", "c", "e", "a", "n">>,
     <<"d", "o", "t", "n", "e", "t">>,
     <<"d", "r", "o", "p", "b", "o", "x">>,
     <<"e", "l", "a", "s", "t", "i", "c">>,
     <<"f", "a", "c", "e", "b", "o", "o", "k">>,
     <<"f", "a", "s", "t", "l", "y">>,
     <<"g", "i", "t", "h", "u", "b">>,
     <<"g", "i", "t", "l", "a", "b">>,
     <<"g", "o", "o", "g", "l", "e">>,
     <<"g", "o", "o", "g", "l", "e", "-", "r", "e", "s", "e", "a", "r", "c", "h">>,
     <<"g", "o", "o", "g", "l", "e", "a", "p", "i", "s">>,
     <<"g", "o", "o", "g", "l", "e", "c", "h", "r", "o", "m", "e">>,
     <<"g", "o", "o", "g", "l", "e", "c", "l", "o", "u", "d">>,
     <<"g", "o", "o", "g", "l", "e", "c", "l", "o", "u", "d", "p", "l", "a", "t", "f", "o", "r", "m">>,
     <<"g", "o", "o", "g", "l", "e", "f", "o", "n", "t", "s">>,
     <<"h", "a", "s", "h", "i", "c", "o", "r", "p">>,
     <<"h", "u", "a", "w", "e", "i">>,
     <<"i", "b", "m">>,
     <<"i", "n", "t", "e", "l">>,
     <<"j", "d">>,
     <<"j", "e", "t", "b", "r", "a", "i", "n", "s">>,
     <<"l", "i", "n", "k", "e", "d", "i", "n">>,
     <<"l", "y", "f", "t">>,
     <<"m", "e", "i", "t", "u", "a", "n">>,
     <<"m", "e", "t", "a">>,
     <<"m", "i", "c", "r", "o", "s", "o", "f", "t">>,
     <<"m", "i", "c", "r", "o", "s", "o", "f", "t", "d", "o", "c", "s">>,
     <<"m", "i", "s", "t", "r", "a", "l", "a", "i">>,
     <<"m", "o", "n", "g", "o", "d", "b">>,
     <<"n", "e", "t", "f", "l", "i", "x">>,
     <<"n", "e", "t", "l", "i", "f", "y">>,
     <<"n", "v", "i", "d", "i", "a">>,
     <<"o", "p", "e", "n", "a", "i">>,
     <<"o", "r", "a", "c", "l", "e">>,
     <<"p", "a", "l", "a", "n", "t", "i", "r">>,
     <<"p", "a", "y", "p", "a", "l">>,
     <<"p", "i", "n", "t", "e", "r", "e", "s", "t">>,
     <<"q", "u", "a", "l", "c", "o", "m", "m">>,
     <<"q", "w", "e", "n", "l", "m">>,
     <<"r", "e", "d", "h", "a", "t">>,
     <<"s", "a", "l", "e", "s", "f", "o", "r", "c", "e">>,
     <<"s", "a", "m", "s", "u", "n", "g">>,
     <<"s", "a", "m", "s", "u", "n", "g", "r", "e", "s", "e", "a", "r", "c", "h">>,
     <<"s", "a", "m", "s", "u", "n", "g", "s", "a", "i", "l", "m", "o", "n", "t", "r", "e", "a", "l">>,
     <<"s", "l", "a", "c", "k">>,
     <<"s", "n", "a", "p">>,
     <<"s", "n", "a", "p", "c", "h", "a", "t">>,
     <<"s", "n", "o", "w", "f", "l", "a", "k", "e">>,
     <<"s", "p", "l", "u", "n", "k">>,
     <<"s", "p", "o", "t", "i", "f", "y">>,
     <<"s", "q", "u", "a", "r", "e">>,
     <<"s", "t", "r", "i", "p", "e">>,
     <<"s", "u", "s", "e">>,
     <<"t", "e", "n", "c", "e", "n", "t">>,
     <<"t", "e", "n", "s", "o", "r", "f", "l", "o", "w">>,
     <<"t", "o", "n", "g", "y", "i", "-", "m", "a", "i">>,
     <<"t", "w", "i", "l", "i", "o">>,
     <<"t", "w", "i", "t", "t", "e", "r">>,
     <<"t", "y", "p", "e", "s", "c", "r", "i", "p", "t">>,
     <<"u", "b", "e", "r">>,
     <<"v", "e", "r", "c", "e", "l">>,
     <<"v", "m", "w", "a", "r", "e">>,
     <<"v", "s", "c", "o", "d", "e">>,
     <<"x">>,
     <<"z", "o", "o", "m">>}

\* CATEGORY_KEYWORDS, in the order of the dict
CATEGORY_KEYWORDS ==
    << [category |-> "ai-ml", keywords |->
          << <<"l", "l", "m">>,  \* 'llm'
             <<"g", "p", "t">>,  \* 'gpt'
             <<"t", "r", "a", "n", "s", "f", "o", "r", "m", "e", "r">>,  \* 'transformer'
             <<"n", "e", "u", "r", "a", "l">>,  \* 'neural'
             <<"d", "e", "e", "p", " ", "l", "e", "a", "r", "n", "i", "n", "g">>,  \* 'deep learning'
             <<"m", "a", "c", "h", "i", "n", "e", " ", "l", "e", "a", "r", "n", "i", "n", "g">>,  \* 'machine learning'
             <<"m", "l">>,  \* 'ml'
             <<"a", "i">>,  \* 'ai'
             <<"a", "r", "t", "i", "f", "i", "c", "i", "a", "l", " ", "i", "n", "t", "e", "l", "l", "i", "g", "e", "n", "c", "e">>,  \* 'artificial intelligence'
             <<"n", "l", "p">>,  \* 'nlp'
             <<"c", "o", "m", "p", "u", "t", "e", "r", " ", "v", "i", "s", "i", "o", "n">>,  \* 'computer vision'
             <<"c", "v">>,  \* 'cv'
             <<"e", "m", "b", "e", "d", "d", "i", "n", "g">>,  \* 'embedding'
             <<"v", "e", "c", "t", "o", "r">>,  \* 'vector'
             <<"r", "a", "g">>,  \* 'rag'
             <<"a", "g", "e", "n", "t">>,  \* 'agent'
             <<"c", "h", "a", "t", "b", "o", "t">>,  \* 'chatbot'
             <<"g", "e", "n", "e", "r", "a", "t", "i", "v", "e">>,  \* 'generative'
             <<"d", "i", "f", "f", "u", "s", "i", "o", "n">>,  \* 'diffusion'
             <<"s", "t", "a", "b", "l", "e", " ", "d", "i", "f", "f", "u", "s", "i", "o", "n">>,  \* 'stable diffusion'
             <<"l", "a", "n", "g", "u", "a", "g", "e", " ", "m", "o", "d", "e", "l">>,  \* 'language model'
             <<"f", "i", "n", "e", "-", "t", "u", "n">>,  \* 'fine-tun'
             <<"i", "n", "f", "e", "r", "e", "n", "c", "e">>,  \* 'inference'
             <<"t", "r", "a", "i", "n", "i", "n", "g">>,  \* 'training'
             <<"m", "o", "d", "e", "l">>,  \* 'model'
             <<"p", "y", "t", "o", "r", "c", "h">>,  \* 'pytorch'
             <<"t", "e", "n", "s", "o", "r", "f", "l", "o", "w">>,  \* 'tensorflow'
             <<"h", "u", "g", "g", "i", "n", "g">> >>]  \* 'hugging'
     , [category |-> "devtools", keywords |->
          << <<"d", "e", "v", "e", "l", "o", "p", "e", "r">>,  \* 'developer'
             <<"i", "d", "e">>,  \* 'ide'
             <<"e", "d", "i", "t", "o", "r">>,  \* 'editor'
             <<"d", "e", "b", "u", "g", "g", "e", "r">>,  \* 'debugger'
             <<"p", "r", "o", "f", "i", "l", "e", "r">>,  \* 'profiler'
             <<"l", "i", "n", "t", "e", "r">>,  \* 'linter'
             <<"f", "o", "r", "m", "a", "t", "t", "e", "r">>,  \* 'formatter'
             <<"c", "l", "i">>,  \* 'cli'
             <<"c", "o", "m", "m", "a", "n", "d", " ", "l", "i", "n", "e">>,  \* 'command line'
             <<"t", "e", "r", "m", "i", "n", "a", "l">>,  \* 'terminal'
             <<"s", "h", "e", "l", "l">>,  \* 'shell'
             <<"s", "d", "k">>,  \* 'sdk'
             <<"a", "p", "i">>,  \* 'api'
             <<"f", "r", "a", "m", "e", "w", "o", "r", "k">>,  \* 'framework'
             <<"l", "i", "b", "r", "a", "r", "y">>,  \* 'library'
             <<"t", "o", "o", "l", "k", "i", "t">>,  \* 'toolkit'
             <<"d", "e", "v", "t", "o", "o", "l">>,  \* 'devtool'
             <<"d", "x">>,  \* 'dx'
             <<"c", "o", "d", "e", " ", "g", "e", "n", "e", "r", "a", "t", "i", "o", "n">>,  \* 'code generation'
             <<"c", "o", "p", "i", "l", "o", "t">>,  \* 'copilot'
             <<"a", "u", "t", "o", "c", "o", "m", "p", "l", "e", "t", "e">>,  \* 'autocomplete'
             <<"s", "n", "i", "p", "p", "e", "t">> >>]  \* 'snippet'
     , [category |-> "infrastructure", keywords |->
          << <<"k", "u", "b", "e", "r", "n", "e", "t", "e", "s">>,  \* 'kubernetes'
             <<"k", "8", "s">>,  \* 'k8s'
             <<"d", "o", "c", "k", "e", "r">>,  \* 'docker'
             <<"c", "o", "n", "t", "a", "i", "n", "e", "r">>,  \* 'container'
             <<"o", "r", "c", "h", "e", "s", "t", "r", "a", "t", "i", "o", "n">>,  \* 'orchestration'
             <<"i", "n", "f", "r", "a", "s", "t", "r", "u", "c", "t", "u", "r", "e">>,  \* 'infrastructure'
             <<"i", "n", "f", "r", "a">>,  \* 'infra'
             <<"c", "l", "o", "u", "d">>,  \* 'cloud'
             <<"s", "e", "r", "v", "e", "r", "l", "e", "s", "s">>,  \* 'serverless'
             <<"l", "a", "m", "b", "d", "a">>,  \* 'lambda'
             <<"t", "e", "r", "r", "a", "f", "o", "r", "m">>,  \* 'terraform'
             <<"p", "u", "l", "u", "m", "i">>,  \* 'pulumi'
             <<"a", "n", "s", "i", "b", "l", "e">>,  \* 'ansible'
             <<"h", "e", "l", "m">>,  \* 'helm'
             <<"g", "i", "t", "o", "p", "s">>,  \* 'gitops'
             <<"c", "i", "/", "c", "d">>,  \* 'ci/cd'
             <<"p", "i", "p", "e", "l", "i", "n", "e">>,  \* 'pipeline'
             <<"d", "e", "p", "l", "o", "y", "m", "e", "n", "t">>,  \* 'deployment'
             <<"s", "c", "a", "l", "i", "n", "g">>,  \* 'scaling'
             <<"l", "o", "a", "d", " ", "b", "a", "l", "a", "n", "c", "e", "r">>,  \* 'load balancer'
             <<"p", "r", "o", "x", "y">>,  \* 'proxy'
             <<"s", "e", "r", "v", "i", "c", "e", " ", "m", "e", "s", "h">>,  \* 'service mesh'
             <<"i", "s", "t", "i", "o">>,  \* 'istio'
             <<"e", "n", "v", "o", "y">>,  \* 'envoy'
             <<"i", "n", "g", "r", "e", "s", "s">> >>]  \* 'ingress'
     , [category |-> "data", keywords |->
          << <<"d", "a", "t", "a", "b", "a", "s", "e">>,  \* 'database'
             <<"s", "q", "l">>,  \* 'sql'
             <<"n", "o", "s", "q", "l">>,  \* 'nosql'
             <<"p", "o", "s", "t", "g", "r", "e", "s">>,  \* 'postgres'
             <<"m", "y", "s", "q", "l">>,  \* 'mysql'
             <<"r", "e", "d", "i", "s">>,  \* 'redis'
             <<"e", "l", "a", "s", "t", "i", "c", "s", "e", "a", "r", "c", "h">>,  \* 'elasticsearch'
             <<"k", "a", "f", "k", "a">>,  \* 'kafka'
             <<"s", "t", "r", "e", "a", "m", "i", "n", "g">>,  \* 'streaming'
             <<"e", "t", "l">>,  \* 'etl'
             <<"p", "i", "p", "e", "l", "i", "n", "e">>,  \* 'pipeline'
             <<"d", "a", "t", "a", " ", "w", "a", "r", "e", "h", "o", "u", "s", "e">>,  \* 'data warehouse'
             <<"a", "n", "a", "l", "y", "t", "i", "c", "s">>,  \* 'analytics'
             <<"o", "l", "a", "p">>,  \* 'olap'
             <<"o", "l", "t", "p">>,  \* 'oltp'
             <<"t", "i", "m", "e", "s", "e", "r", "i", "e", "s">>,  \* 'timeseries'
             <<"g", "r", "a", "p", "h", " ", "d", "a", "t", "a", "b", "a", "s", "e">>,  \* 'graph database'
             <<"v", "e", "c", "t", "o", "r", " ", "d", "a", "t", "a", "b", "a", "s", "e">>,  \* 'vector database'
             <<"d", "a", "t", "a", " ", "l", "a", "k", "e">>,  \* 'data lake'
             <<"s", "p", "a", "r", "k">>,  \* 'spark'
             <<"f", "l", "i", "n", "k">>,  \* 'flink'
             <<"a", "i", "r", "f", "l", "o", "w">>,  \* 'airflow'
             <<"d", "a", "g", "s", "t", "e", "r">>,  \* 'dagster'
             <<"d", "b", "t">>,  \* 'dbt'
             <<"d", "a", "t", "a", " ", "e", "n", "g", "i", "n", "e", "e", "r", "i", "n", "g">> >>]  \* 'data engineering'
     , [category |-> "security", keywords |->
          << <<"s", "e", "c", "u", "r", "i", "t", "y">>,  \* 'security'
             <<"a", "u", "t", "h">>,  \* 'auth'
             <<"a", "u", "t", "h", "e", "n", "t", "i", "c", "a", "t", "i", "o", "n">>,  \* 'authentication'
             <<"a", "u", "t", "h", "o", "r", "i", "z", "a", "t", "i", "o", "n">>,  \* 'authorization'
             <<"o", "a", "u", "t", "h">>,  \* 'oauth'
             <<"s", "s", "o">>,  \* 'sso'
             <<"i", "d", "e", "n", "t", "i", "t", "y">>,  \* 'identity'
             <<"i", "a", "m">>,  \* 'iam'
             <<"r", "b", "a", "c">>,  \* 'rbac'
             <<"e", "n", "c", "r", "y", "p", "t", "i", "o", "n">>,  \* 'encryption'
             <<"c", "r", "y", "p", "t", "o", "g", "r", "a", "p", "h", "y">>,  \* 'cryptography'
             <<"v", "u", "l", "n", "e", "r", "a", "b", "i", "l", "i", "t", "y">>,  \* 'vulnerability'
             <<"s", "c", "a", "n", "n", "e", "r">>,  \* 'scanner'
             <<"p", "e", "n", "t", "e", "s", "t">>,  \* 'pentest'
             <<"p", "e", "n", "e", "t", "r", "a", "t", "i", "o", "n">>,  \* 'penetration'
             <<"s", "i", "e", "m">>,  \* 'siem'
             <<"f", "i", "r", "e", "w", "a", "l", "l">>,  \* 'firewall'
             <<"w", "a", "f">>,  \* 'waf'
             <<"d", "e", "v", "s", "e", "c", "o", "p", "s">>,  \* 'devsecops'
             <<"s", "e", "c", "r", "e", "t", "s">>,  \* 'secrets'
             <<"v", "a", "u", "l", "t">>,  \* 'vault'
             <<"c", "o", "m", "p", "l", "i", "a", "n", "c", "e">> >>]  \* 'compliance'
     , [category |-> "observability", keywords |->
          << <<"m", "o", "n", "i", "t", "o", "r", "i", "n", "g">>,  \* 'monitoring'
             <<"o", "b", "s", "e", "r", "v", "a", "b", "i", "l", "i", "t", "y">>,  \* 'observability'
             <<"l", "o", "g", "g", "i", "n", "g">>,  \* 'logging'
             <<"t", "r", "a", "c", "i", "n", "g">>,  \* 'tracing'
             <<"m", "e", "t", "r", "i", "c", "s">>,  \* 'metrics'
             <<"a", "p", "m">>,  \* 'apm'
             <<"a", "l", "e", "r", "t", "i", "n", "g">>,  \* 'alerting'
             <<"d", "a", "s", "h", "b", "o", "a", "r", "d">>,  \* 'dashboard'
             <<"g", "r", "a", "f", "a", "n", "a">>,  \* 'grafana'
             <<"p", "r", "o", "m", "e", "t", "h", "e", "u", "s">>,  \* 'prometheus'
             <<"o", "p", "e", "n", "t", "e", "l", "e", "m", "e", "t", "r", "y">>,  \* 'opentelemetry'
             <<"j", "a", "e", "g", "e", "r">>,  \* 'jaeger'
             <<"z", "i", "p", "k", "i", "n">>,  \* 'zipkin'
             <<"e", "l", "k">>,  \* 'elk'
             <<"l", "o", "g", " ", "a", "g", "g", "r", "e", "g", "a", "t", "i", "o", "n">> >>]  \* 'log aggregation'
     , [category |-> "frontend", keywords |->
          << <<"r", "e", "a", "c", "t">>,  \* 'react'
             <<"v", "u", "e">>,  \* 'vue'
             <<"a", "n", "g", "u", "l", "a", "r">>,  \* 'angular'
             <<"s", "v", "e", "l", "t", "e">>,  \* 'svelte'
             <<"f", "r", "o", "n", "t", "e", "n", "d">>,  \* 'frontend'
             <<"u", "i">>,  \* 'ui'
             <<"u", "x">>,  \* 'ux'
             <<"c", "o", "m", "p", "o", "n", "e", "n", "t">>,  \* 'component'
             <<"d", "e", "s", "i", "g", "n", " ", "s", "y", "s", "t", "e", "m">>,  \* 'design system'
             <<"c", "s", "s">>,  \* 'css'
             <<"t", "a", "i", "l", "w", "i", "n", "d">>,  \* 'tailwind'
             <<"s", "t", "y", "l", "e", "d">>,  \* 'styled'
             <<"a", "n", "i", "m", "a", "t", "i", "o", "n">>,  \* 'animation'
             <<"w", "e", "b">>,  \* 'web'
             <<"b", "r", "o", "w", "s", "e", "r">>,  \* 'browser'
             <<"d", "o", "m">>,  \* 'dom'
             <<"j", "a", "v", "a", "s", "c", "r", "i", "p", "t">>,  \* 'javascript'
             <<"t", "y", "p", "e", "s", "c", "r", "i", "p", "t">> >>]  \* 'typescript'
     , [category |-> "backend", keywords |->
          << <<"b", "a", "c", "k", "e", "n", "d">>,  \* 'backend'
             <<"s", "e", "r", "v", "e", "r">>,  \* 'server'
             <<"r", "e", "s", "t">>,  \* 'rest'
             <<"g", "r", "a", "p", "h", "q", "l">>,  \* 'graphql'
             <<"g", "r", "p", "c">>,  \* 'grpc'
             <<"w", "e", "b", "s", "o", "c", "k", "e", "t">>,  \* 'websocket'
             <<"m", "i", "c", "r", "o", "s", "e", "r", "v", "i", "c", "e">>,  \* 'microservice'
             <<"m", "o", "n", "o", "l", "i", "t", "h">>,  \* 'monolith'
             <<"a", "p", "i", " ", "g", "a", "t", "e", "w", "a", "y">>,  \* 'api gateway'
             <<"r", "a", "t", "e", " ", "l", "i", "m", "i", "t">>,  \* 'rate limit'
             <<"c", "a", "c", "h", "i", "n", "g">>,  \* 'caching'
             <<"q", "u", "e", "u", "e">>,  \* 'queue'
             <<"m", "e", "s", "s", "a", "g", "e", " ", "b", "r", "o", "k", "e", "r">>,  \* 'message broker'
             <<"e", "v", "e", "n", "t", " ", "d", "r", "i", "v", "e", "n">> >>]  \* 'event driven'
     , [category |-> "fintech", keywords |->
          << <<"p", "a", "y", "m", "e", "n", "t">>,  \* 'payment'
             <<"f", "i", "n", "t", "e", "c", "h">>,  \* 'fintech'
             <<"b", "a", "n", "k", "i", "n", "g">>,  \* 'banking'
             <<"t", "r", "a", "d", "i", "n", "g">>,  \* 'trading'
             <<"c", "r", "y", "p", "t", "o">>,  \* 'crypto'
             <<"b", "l", "o", "c", "k", "c", "h", "a", "i", "n">>,  \* 'blockchain'
             <<"d", "e", "f", "i">>,  \* 'defi'
             <<"w", "a", "l", "l", "e", "t">>,  \* 'wallet'
             <<"t", "r", "a", "n", "s", "a", "c", "t", "i", "o", "n">>,  \* 'transaction'
             <<"l", "e", "d", "g", "e", "r">>,  \* 'ledger'
             <<"i", "n", "v", "o", "i", "c", "e">>,  \* 'invoice'
             <<"b", "i", "l", "l", "i", "n", "g">> >>]  \* 'billing'
    >>

\* NON_INVESTABLE_PATTERNS['name_patterns']
name_patterns ==
    << <<"a", "w", "e", "s", "o", "m", "e", "-">>,  \* 'awesome-'
       <<"a", "w", "e", "s", "o", "m", "e", "_">>,  \* 'awesome_'
       <<"-", "a", "w", "e", "s", "o", "m", "e">>,  \* '-awesome'
       <<"_", "a", "w", "e", "s", "o", "m", "e">>,  \* '_awesome'
       <<"c", "h", "e", "a", "t", "s", "h", "e", "e", "t">>,  \* 'cheatsheet'
       <<"c", "h", "e", "a", "t", "-", "s", "h", "e", "e", "t">>,  \* 'cheat-sheet'
       <<"c", "h", "e", "a", "t", "_", "s", "h", "e", "e", "t">>,  \* 'cheat_sheet'
       <<"i", "n", "t", "e", "r", "v", "i", "e", "w">>,  \* 'interview'
       <<"l", "e", "e", "t", "c", "o", "d", "e">>,  \* 'leetcode'
       <<"a", "l", "g", "o", "r", "i", "t", "h", "m">>,  \* 'algorithm'
       <<"d", "a", "t", "a", "-", "s", "t", "r", "u", "c", "t", "u", "r", "e">>,  \* 'data-structure'
       <<"t", "u", "t", "o", "r", "i", "a", "l">>,  \* 'tutorial'
       <<"l", "e", "a", "r", "n", "-">>,  \* 'learn-'
       <<"l", "e", "a", "r", "n", "i", "n", "g", "-">>,  \* 'learning-'
       <<"-", "t", "u", "t", "o", "r", "i", "a", "l">>,  \* '-tutorial'
       <<"e", "x", "a", "m", "p", "l", "e">>,  \* 'example'
       <<"s", "a", "m", "p", "l", "e">>,  \* 'sample'
       <<"d", "e", "m", "o">>,  \* 'demo'
       <<"b", "o", "i", "l", "e", "r", "p", "l", "a", "t", "e">>,  \* 'boilerplate'
       <<"s", "t", "a", "r", "t", "e", "r">>,  \* 'starter'
       <<"c", "o", "u", "r", "s", "e">>,  \* 'course'
       <<"r", "o", "a", "d", "m", "a", "p">>,  \* 'roadmap'
       <<"g", "u", "i", "d", "e">>,  \* 'guide'
       <<"h", "a", "n", "d", "b", "o", "o", "k">>,  \* 'handbook'
       <<"b", "o", "o", "k">>,  \* 'book'
       <<"d", "o", "t", "f", "i", "l", "e", "s">>,  \* 'dotfiles'
       <<"c", "o", "n", "f", "i", "g">>,  \* 'config'
       <<"s", "e", "t", "u", "p">> >>  \* 'setup'

\* NON_INVESTABLE_PATTERNS['description_patterns']
description_patterns ==
    << <<"c", "u", "r", "a", "t", "e", "d", " ", "l", "i", "s", "t">>,  \* 'curated list'
       <<"a", "w", "e", "s", "o", "m", "e", " ", "l", "i", "s", "t">>,  \* 'awesome list'
       <<"c", "o", "l", "l", "e", "c", "t", "i", "o", "n", " ", "o", "f">>,  \* 'collection of'
       <<"i", "n", "t", "e", "r", "v", "i", "e", "w", " ", "p", "r", "e", "p">>,  \* 'interview prep'
       <<"c", "o", "d", "i", "n", "g", " ", "i", "n", "t", "e", "r", "v", "i", "e", "w">>,  \* 'coding interview'
       <<"s", "y", "s", "t", "e", "m", " ", "d", "e", "s", "i", "g", "n", " ", "i", "n", "t", "e", "r", "v", "i", "e", "w">>,  \* 'system design interview'
       <<"c", "h", "e", "a", "t", " ", "s", "h", "e", "e", "t">>,  \* 'cheat sheet'
       <<"c", "h", "e", "a", "t", "s", "h", "e", "e", "t">>,  \* 'cheatsheet'
       <<"q", "u", "i", "c", "k", " ", "r", "e", "f", "e", "r", "e", "n", "c", "e">>,  \* 'quick reference'
       <<"l", "e", "a", "r", "n", "i", "n", "g", " ", "r", "e", "s", "o", "u", "r", "c", "e">>,  \* 'learning resource'
       <<"s", "t", "u", "d", "y", " ", "g", "u", "i", "d", "e">>,  \* 'study guide'
       <<"c", "o", "u", "r", "s", "e", " ", "m", "a", "t", "e", "r", "i", "a", "l">>,  \* 'course material'
       <<"m", "y", " ", "p", "e", "r", "s", "o", "n", "a", "l">>,  \* 'my personal'
       <<"m", "y", " ", "d", "o", "t", "f", "i", "l", "e", "s">>,  \* 'my dotfiles'
       <<"m", "y", " ", "c", "o", "n", "f", "i", "g">> >>  \* 'my config'

\* detect_funding_status: known_funded
known_funded ==
    { [owner |-> <<"l", "a", "n", "g", "c", "h", "a", "i", "n", "-", "a", "i">>, status |-> "series-a", amount |-> "$25M", source |-> "Sequoia"],
      [owner |-> <<"h", "u", "g", "g", "i", "n", "g", "f", "a", "c", "e">>, status |-> "series-d", amount |-> "$235M", source |-> "Known"],
      [owner |-> <<"v", "e", "r", "c", "e", "l">>, status |-> "series-d", amount |-> "$250M", source |-> "Known"],
      [owner |-> <<"s", "u", "p", "a", "b", "a", "s", "e">>, status |-> "series-c", amount |-> "$116M", source |-> "Known"],
      [owner |-> <<"p", "r", "i", "s", "m", "a">>, status |-> "series-b", amount |-> "$40M", source |-> "Known"],
      [owner |-> <<"p", "l", "a", "n", "e", "t", "s", "c", "a", "l", "e">>, status |-> "series-c", amount |-> "$50M", source |-> "Known"],
      [owner |-> <<"n", "e", "o", "n">>, status |-> "series-b", amount |-> "$104M", source |-> "Known"],
      [owner |-> <<"a", "i", "r", "b", "y", "t", "e">>, status |-> "series-b", amount |-> "$150M", source |-> "Known"],
      [owner |-> <<"t", "e", "m", "p", "o", "r", "a", "l">>, status |-> "series-b", amount |-> "$103M", source |-> "Known"],
      [owner |-> <<"d", "a", "g", "s", "t", "e", "r">>, status |-> "series-b", amount |-> "$33M", source |-> "Known"],
      [owner |-> <<"p", "r", "e", "f", "e", "c", "t">>, status |-> "series-b", amount |-> "$32M", source |-> "Known"],
      [owner |-> <<"p", "o", "s", "t", "h", "o", "g">>, status |-> "series-b", amount |-> "$15M", source |-> "Known"],
      [owner |-> <<"c", "a", "l", ".", "c", "o", "m">>, status |-> "series-a", amount |-> "$25M", source |-> "Known"],
      [owner |-> <<"d", "a", "g", "g", "e", "r">>, status |-> "series-a", amount |-> "$20M", source |-> "Known"],
      [owner |-> <<"i", "n", "f", "i", "s", "i", "c", "a", "l">>, status |-> "seed", amount |-> "$2.8M", source |-> "Known"],
      [owner |-> <<"t", "r", "i", "g", "g", "e", "r", ".", "d", "e", "v">>, status |-> "seed", amount |-> "$3M", source |-> "Known"],
      [owner |-> <<"c", "o", "m", "p", "o", "s", "i", "o">>, status |-> "seed", amount |-> "$2M", source |-> "Known"] }

\* detect_commercial_signals: pricing_keywords
pricing_keywords ==
    << <<"p", "r", "i", "c", "i", "n", "g">>,  \* 'pricing'
       <<"p", "l", "a", "n", "s">>,  \* 'plans'
       <<"e", "n", "t", "e", "r", "p", "r", "i", "s", "e">>,  \* 'enterprise'
       <<"p", "r", "o", " ", "v", "e", "r", "s", "i", "o", "n">>,  \* 'pro version'
       <<"p", "r", "e", "m", "i", "u", "m">>,  \* 'premium'
       <<"s", "u", "b", "s", "c", "r", "i", "p", "t", "i", "o", "n">>,  \* 'subscription'
       <<"l", "i", "c", "e", "n", "s", "e">>,  \* 'license'
       <<"c", "o", "m", "m", "e", "r", "c", "i", "a", "l">>,  \* 'commercial'
       <<"p", "a", "i", "d">>,  \* 'paid'
       <<"f", "r", "e", "e", " ", "t", "i", "e", "r">>,  \* 'free tier'
       <<"c", "o", "n", "t", "a", "c", "t", " ", "s", "a", "l", "e", "s">>,  \* 'contact sales'
       <<"b", "o", "o", "k", " ", "a", " ", "d", "e", "m", "o">>,  \* 'book a demo'
       <<"r", "e", "q", "u", "e", "s", "t", " ", "d", "e", "m", "o">>,  \* 'request demo'
       <<"t", "a", "l", "k", " ", "t", "o", " ", "s", "a", "l", "e", "s">> >>  \* 'talk to sales'

\* detect_commercial_signals: enterprise_keywords
enterprise_keywords ==
    << <<"e", "n", "t", "e", "r", "p", "r", "i", "s", "e">>,  \* 'enterprise'
       <<"s", "s", "o">>,  \* 'sso'
       <<"s", "a", "m", "l">>,  \* 'saml'
       <<"l", "d", "a", "p">>,  \* 'ldap'
       <<"a", "u", "d", "i", "t", " ", "l", "o", "g">>,  \* 'audit log'
       <<"r", "o", "l", "e", "-", "b", "a", "s", "e", "d">>,  \* 'role-based'
       <<"r", "b", "a", "c">>,  \* 'rbac'
       <<"c", "o", "m", "p", "l", "i", "a", "n", "c", "e">>,  \* 'compliance'
       <<"s", "o", "c", " ", "2">>,  \* 'soc 2'
       <<"h", "i", "p", "a", "a">>,  \* 'hipaa'
       <<"g", "d", "p", "r">>,  \* 'gdpr'
       <<"o", "n", "-", "p", "r", "e", "m", "i", "s", "e">>,  \* 'on-premise'
       <<"s", "e", "l", "f", "-", "h", "o", "s", "t", "e", "d">>,  \* 'self-hosted'
       <<"a", "i", "r", "-", "g", "a", "p", "p", "e", "d">> >>  \* 'air-gapped'

\* detect_commercial_signals: cloud_keywords
cloud_keywords ==
    << <<"c", "l", "o", "u", "d">>,  \* 'cloud'
       <<"h", "o", "s", "t", "e", "d">>,  \* 'hosted'
       <<"s", "a", "a", "s">>,  \* 'saas'
       <<"m", "a", "n", "a", "g", "e", "d">>,  \* 'managed'
       <<"o", "u", "r", " ", "p", "l", "a", "t", "f", "o", "r", "m">>,  \* 'our platform'
       <<"s", "i", "g", "n", " ", "u", "p">>,  \* 'sign up'
       <<"g", "e", "t", " ", "s", "t", "a", "r", "t", "e", "d">>,  \* 'get started'
       <<"t", "r", "y", " ", "f", "o", "r", " ", "f", "r", "e", "e">>,  \* 'try for free'
       <<"s", "t", "a", "r", "t", " ", "f", "r", "e", "e">> >>  \* 'start free'

\* detect_commercial_signals: company_keywords
company_keywords ==
    << <<"o", "u", "r", " ", "t", "e", "a", "m">>,  \* 'our team'
       <<"a", "b", "o", "u", "t", " ", "u", "s">>,  \* 'about us'
       <<"c", "a", "r", "e", "e", "r", "s">>,  \* 'careers'
       <<"w", "e", " ", "a", "r", "e">>,  \* 'we are'
       <<"o", "u", "r", " ", "c", "o", "m", "p", "a", "n", "y">>,  \* 'our company'
       <<"f", "o", "u", "n", "d", "e", "d">>,  \* 'founded'
       <<"i", "n", "v", "e", "s", "t", "o", "r", "s">>,  \* 'investors'
       <<"b", "a", "c", "k", "e", "d", " ", "b", "y">>,  \* 'backed by'
       <<"r", "a", "i", "s", "e", "d">>,  \* 'raised'
       <<"f", "u", "n", "d", "i", "n", "g">> >>  \* 'funding'

----------------------------------------------------------------------------
(* analysis.py: classification, filtering, funding, commercial signals *)

is_big_tech(owner) == Lower(owner) \in BIG_TECH_ORGS

\* A plausible slip: the description patterns are checked before the name
\* patterns.
is_non_investable_repo_description_first(name, description) ==
    LET name_lower == Lower(name)
        desc_lower == Lower(OrEmpty(description))
        n == FirstMatch(name_patterns, name_lower)
        d == FirstMatch(description_patterns, desc_lower)
    IN  IF d # 0
        THEN [flagged |-> TRUE,
              reason |-> Some([list |-> "description", pattern |-> description_patterns[d]])]
        ELSE IF n # 0
        THEN [flagged |-> TRUE, reason |-> Some([list |-> "name", pattern |-> name_patterns[n]])]
        ELSE [flagged |-> FALSE, reason |-> None]

\* (is_non_investable, reason): the reason names the list and the pattern
is_non_investable_repo(name, description) ==
    LET name_lower == Lower(name)
        desc_lower == Lower(OrEmpty(description))
        n == FirstMatch(name_patterns, name_lower)
        d == FirstMatch(description_patterns, desc_lower)
    IN  IF n # 0
        THEN [flagged |-> TRUE, reason |-> Some([list |-> "name", pattern |-> name_patterns[n]])]
        ELSE IF d # 0
        THEN [flagged |-> TRUE,
              reason |-> Some([list |-> "description", pattern |-> description_patterns[d]])]
        ELSE [flagged |-> FALSE, reason |-> None]

\* the text categorize_repo scans
CategoryText(description, topics, readme) ==
    Lower(OrEmpty(description))
      \o (IF topics # <<>> THEN <<" ">> \o Lower(JoinWithSpace(topics)) ELSE <<>>)
      \o (IF Truthy(readme) THEN <<" ">> \o Prefix(Lower(Val(readme)), 2000) ELSE <<>>)

\* A plausible slip: among equal scores the last category wins.
categorize_repo_last_tie(description, topics, readme) ==
    LET text   == CategoryText(description, topics, readme)
        n      == Len(CATEGORY_KEYWORDS)
        score  == [i \in 1..n |-> CountMatches(CATEGORY_KEYWORDS[i].keywords, text)]
        scored == {i \in 1..n : score[i] > 0}
    IN  IF scored = {} THEN "other"
        ELSE LET best == CHOOSE i \in scored :
                            /\ \A j \in scored : score[j] <= score[i]
                            /\ \A j \in scored : j > i => score[j] < score[i]
             IN  CATEGORY_KEYWORDS[best].category

categorize_repo(description, topics, readme) ==
    LET text   == CategoryText(description, topics, readme)
        n      == Len(CATEGORY_KEYWORDS)
        score  == [i \in 1..n |-> CountMatches(CATEGORY_KEYWORDS[i].keywords, text)]
        scored == {i \in 1..n : score[i] > 0}
    IN  IF scored = {} THEN "other"
        ELSE LET best == CHOOSE i \in scored :
                            /\ \A j \in scored : score[j] <= score[i]
                            /\ \A j \in scored : j < i => score[j] < score[i]
             IN  CATEGORY_KEYWORDS[best].category

\* (status, amount, source)
detect_funding_status(owner, repo, description) ==
    LET owner_lower == Lower(owner)
        desc_lower  == Lower(OrEmpty(description))
    IN  IF \E k \in known_funded : k.owner = owner_lower
        THEN LET k == CHOOSE k \in known_funded : k.owner = owner_lower
             IN  [status |-> k.status, amount |-> Some(k.amount), source |-> Some(k.source)]
        ELSE IF Truthy(description)
                /\ ( \/ Contains(<<"y", " ", "c", "o", "m", "b", "i", "n", "a", "t", "o", "r">>,
                                 desc_lower)
                     \/ Contains(<<"(", "y", "c">>, desc_lower) )
        THEN [status |-> "seed", amount |-> Some("YC-backed"), source |-> Some("YC")]
        ELSE [status |-> "unknown", amount |-> None, source |-> None]

\* the text detect_commercial_signals scans
CommercialText(description, readme) ==
    (IF Truthy(description) THEN Lower(Val(description)) \o <<" ">> ELSE <<>>)
      \o (IF Truthy(readme) THEN Prefix(Lower(Val(readme)), 5000) \o <<" ">> ELSE <<>>)

\* A plausible slip: one enterprise term is enough for has_enterprise.
detect_commercial_signals_one_term(description, readme, homepage) ==
    LET text           == CommercialText(description, readme)
        has_pricing    == FirstMatch(pricing_keywords, text) # 0
        has_enterprise == CountMatches(enterprise_keywords, text) >= 1
        has_cloud      == FirstMatch(cloud_keywords, text) # 0
        has_company    == FirstMatch(company_keywords, text) # 0
        has_docs_site  ==
            /\ Truthy(homepage)
            /\ ~Contains(<<"g", "i", "t", "h", "u", "b", ".", "c", "o", "m">>,
                         Lower(Val(homepage)))
    IN  [has_company |-> has_company, has_pricing |-> has_pricing,
         has_enterprise |-> has_enterprise, has_cloud |-> has_cloud,
         has_docs_site |-> has_docs_site,
         commercial_score |->
             (IF has_pricing THEN 2 ELSE 0) + (IF has_enterprise THEN 3 ELSE 0)
           + (IF has_cloud THEN 2 ELSE 0) + (IF has_company THEN 2 ELSE 0)
           + (IF has_docs_site THEN 1 ELSE 0)]

detect_commercial_signals(description, readme, homepage) ==
    LET text           == CommercialText(description, readme)
        has_pricing    == FirstMatch(pricing_keywords, text) # 0
        has_enterprise == CountMatches(enterprise_keywords, text) >= 2
        has_cloud      == FirstMatch(cloud_keywords, text) # 0
        has_company    == FirstMatch(company_keywords, text) # 0
        has_docs_site  ==
            /\ Truthy(homepage)
            /\ ~Contains(<<"g", "i", "t", "h", "u", "b", ".", "c", "o", "m">>,
                         Lower(Val(homepage)))
    IN  [has_company |-> has_company, has_pricing |-> has_pricing,
         has_enterprise |-> has_enterprise, has_cloud |-> has_cloud,
         has_docs_site |-> has_docs_site,
         commercial_score |->
             (IF has_pricing THEN 2 ELSE 0) + (IF has_enterprise THEN 3 ELSE 0)
           + (IF has_cloud THEN 2 ELSE 0) + (IF has_company THEN 2 ELSE 0)
           + (IF has_docs_site THEN 1 ELSE 0)]

----------------------------------------------------------------------------
(* analysis.py: the scorers                                                *)
(* created_at is None, or Some of a record whose form tells what           *)
(* datetime.fromisoformat makes of the text: "empty" for '', "malformed"   *)
(* when it raises ValueError, "aware" for a datetime with a tzinfo (the    *)
(* "...Z" timestamps of the GitHub API), "naive" for one without; age_days *)
(* is (datetime.utcnow() - created_date.replace(tzinfo=None)).days.        *)
(* Growth values are in hundredths of a percent.                           *)

Min(a, b) == IF a < b THEN a ELSE b
Max(a, b) == IF a > b THEN a ELSE b

\* `if created_at:`
HasCreatedAt(created_at) == created_at # None /\ Val(created_at).form # "empty"
\* A plausible slip: an unparsable text is read as a timestamp of now.
ParsesAnyText(created_at) == HasCreatedAt(created_at)

\* datetime.fromisoformat(created_at.replace('Z', '+00:00')) returns
ParsesCreatedAt(created_at) ==
    HasCreatedAt(created_at) /\ Val(created_at).form \in {"aware", "naive"}

\* A plausible slip: only the upper end of the range is enforced.
ClampUpperOnly(score) == Min(score, 100)

\* max(0, min(score, max_score))
Clamp(score) == Max(0, Min(score, 100))

\* "Base traction (up to 15 points)"
StarsPoints(stars) ==
    IF stars >= 10000 THEN 15
    ELSE IF stars >= 5000 THEN 12
    ELSE IF stars >= 1000 THEN 9
    ELSE IF stars >= 500 THEN 6
    ELSE 0

\* "Downloads/usage (up to 20 points)"
DownloadsPoints(downloads) ==
    IF downloads >= 100000 THEN 20
    ELSE IF downloads >= 10000 THEN 15
    ELSE IF downloads >= 1000 THEN 10
    ELSE IF downloads > 0 THEN 5
    ELSE 0

\* "Dependents - STRONGEST signal for real usage (up to 25 points)"
DependentsPoints(dependents) ==
    IF dependents >= 500 THEN 25
    ELSE IF dependents >= 100 THEN 20
    ELSE IF dependents >= 50 THEN 15
    ELSE IF dependents >= 10 THEN 10
    ELSE IF dependents > 0 THEN 5
    ELSE 0

\* "Team size / contributors (up to 10 points)"
ContributorsPoints(contributors) ==
    IF contributors >= 50 THEN 10
    ELSE IF contributors >= 20 THEN 7
    ELSE IF contributors >= 5 THEN 5
    ELSE IF contributors > 1 THEN 2
    ELSE 0

\* "Activity - PRs and commits (up to 10 points)"
ActivityPoints(prs, commits) ==
    IF prs >= 50 \/ commits >= 200 THEN 10
    ELSE IF prs >= 20 \/ commits >= 100 THEN 7
    ELSE IF prs >= 5 \/ commits >= 30 THEN 4
    ELSE 0

\* "Growth/Velocity metrics (up to 20 points)"
GrowthPoints(growth) ==
    IF growth = None THEN 0
    ELSE LET stars_mom     == OrZero(Val(growth).stars_mom)
             acceleration  == OrZero(Val(growth).stars_acceleration)
             downloads_mom == OrZero(Val(growth).downloads_mom)
         IN  (IF stars_mom >= 10000 THEN 12
              ELSE IF stars_mom >= 5000 THEN 10
              ELSE IF stars_mom >= 2000 THEN 7
              ELSE IF stars_mom >= 1000 THEN 4
              ELSE 0)
           + (IF acceleration > 1000 THEN 8
              ELSE IF acceleration > 500 THEN 6
              ELSE IF acceleration > 0 THEN 3
              ELSE 0)
           + (IF downloads_mom >= 5000 THEN 5
              ELSE IF downloads_mom >= 2000 THEN 3
              ELSE 0)

\* "Funding gap bonus (up to 5 points)"
FundingGapPoints(funding_status, stars, downloads) ==
    IF funding_status \in {Some("unfunded"), Some("unknown")}
    THEN IF stars >= 5000 \/ downloads >= 10000 THEN 5
         ELSE IF stars >= 1000 THEN 3
         ELSE 0
    ELSE 0

hot_categories == {"ai-ml", "security", "infrastructure", "devtools"}

\* "Hot category bonus"
HotCategoryPoints(category) ==
    IF category # None /\ Val(category) \in hot_categories THEN 5 ELSE 0

\* "Non-investable repo penalty": only when both texts are non-empty
NonInvestablePenalty(repo_name, description) ==
    IF Truthy(repo_name) /\ Truthy(description)
       /\ is_non_investable_repo(Val(repo_name), description).flagged
    THEN 30 ELSE 0

\* "Single maintainer with low activity penalty"
SingleMaintainerPenalty(contributors, prs, commits) ==
    IF contributors <= 1 /\ prs < 5 /\ commits < 20 THEN 15 ELSE 0

\* "Old unfunded project penalty". For an aware datetime the first age_days
\* expression evaluates datetime.now(tz).days, which raises AttributeError,
\* and the bare except skips the penalty. The second branch of the if/elif
\* is tested only when age_days <= 730.
AgePenalty(created_at, funding_status) ==
    IF HasCreatedAt(created_at) /\ funding_status \in {Some("unknown"), Some("unfunded")}
       /\ ParsesCreatedAt(created_at) /\ Val(created_at).form = "naive"
    THEN LET age_days == Val(created_at).age_days
         IN  IF age_days > 730 THEN 10
             ELSE IF age_days > 1095 THEN 15
             ELSE 0
    ELSE 0

\* A plausible slip: an entity of exactly 180 days still counts as young.
BreakoutBonusUpTo180(created_at, stars, dependents) ==
    IF ParsesCreatedAt(created_at) /\ Val(created_at).age_days <= 180
    THEN IF stars >= 1000 \/ dependents >= 20 THEN 10
         ELSE IF stars >= 500 \/ dependents >= 10 THEN 5
         ELSE 0
    ELSE 0

\* "Recency bonus - young breakout projects"
BreakoutBonus(created_at, stars, dependents) ==
    IF ParsesCreatedAt(created_at) /\ Val(created_at).age_days < 180
    THEN IF stars >= 1000 \/ dependents >= 20 THEN 10
         ELSE IF stars >= 500 \/ dependents >= 10 THEN 5
         ELSE 0
    ELSE 0

\* the value of `score` at the return statement
InvestabilityRaw(metrics, growth, funding_status, category, repo_name, description, created_at) ==
    LET stars        == OrZero(metrics.stars)
        downloads    == OrZero(metrics.downloads)
        dependents   == OrZero(metrics.dependents)
        contributors == OrZero(metrics.contributors)
        prs          == OrZero(metrics.prs_30d)
        commits      == OrZero(metrics.commits_3mo)
    IN  StarsPoints(stars) + DownloadsPoints(downloads) + DependentsPoints(dependents)
          + ContributorsPoints(contributors) + ActivityPoints(prs, commits)
          + GrowthPoints(growth)
          + FundingGapPoints(funding_status, stars, downloads)
          + HotCategoryPoints(category)
          - NonInvestablePenalty(repo_name, description)
          - SingleMaintainerPenalty(contributors, prs, commits)
          - AgePenalty(created_at, funding_status)
          + BreakoutBonus(created_at, stars, dependents)

calculate_investability_score(metrics, growth, funding_status, category, repo_name, description, created_at) ==
    Clamp(InvestabilityRaw(metrics, growth, funding_status, category,
                           repo_name, description, created_at))

\* "STAR RANGE (sweet spot: 1K-30K)"
SeriesAStars(stars) ==
    IF 1000 <= stars /\ stars <= 30000 THEN 15
    ELSE IF 500 <= stars /\ stars < 1000 THEN 10
    ELSE IF 30000 < stars /\ stars <= 50000 THEN 5
    ELSE IF stars > 50000 THEN 0 - 15
    ELSE IF stars < 200 THEN 0 - 10
    ELSE 0

\* "TEAM SIZE (sweet spot: 5-50 contributors)"
SeriesATeam(contributors) ==
    IF 5 <= contributors /\ contributors <= 50 THEN 10
    ELSE IF contributors > 50 THEN 5
    ELSE IF contributors <= 2 THEN 0 - 15
    ELSE 0

\* "REAL USAGE (dependents + downloads)"
SeriesAUsage(dependents, downloads) ==
    IF dependents >= 50 \/ downloads >= 10000 THEN 15
    ELSE IF dependents >= 10 \/ downloads >= 1000 THEN 10
    ELSE IF dependents > 0 \/ downloads > 0 THEN 5
    ELSE 0

\* "AGE (sweet spot: 6-24 months)"; age_months = age_days / 30, so the
\* month bands are these day bands
SeriesAAge(created_at) ==
    IF ParsesCreatedAt(created_at)
    THEN LET age_days == Val(created_at).age_days
         IN  IF 180 <= age_days /\ age_days <= 720 THEN 10
             ELSE IF 90 <= age_days /\ age_days < 180 THEN 5
             ELSE IF 720 < age_days /\ age_days <= 1080 THEN 0
             ELSE IF age_days > 1080 THEN 0 - 10
             ELSE 0
    ELSE 0

\* A plausible slip: only the series-a round counts as already funded.
SeriesAFundingFirstRoundOnly(funding_status) ==
    IF funding_status = Some("seed") THEN 15
    ELSE IF funding_status = Some("unknown") THEN 10
    ELSE IF funding_status = Some("series-a") THEN 0 - 20
    ELSE 0

\* "FUNDING STATUS"
SeriesAFunding(funding_status) ==
    IF funding_status = Some("seed") THEN 15
    ELSE IF funding_status = Some("unknown") THEN 10
    ELSE IF funding_status \in {Some("series-a"), Some("series-b"),
                                Some("series-c"), Some("series-d")} THEN 0 - 20
    ELSE 0

\* "COMMERCIAL SIGNALS"
SeriesACommercial(commercial_signals) ==
    IF commercial_signals = None THEN 0
    ELSE Val(commercial_signals).commercial_score
           + (IF Val(commercial_signals).has_pricing THEN 5 ELSE 0)
           + (IF Val(commercial_signals).has_enterprise THEN 5 ELSE 0)

\* the value of `score` at the return statement
SeriesARaw(metrics, funding_status, created_at, commercial_signals) ==
    50 + SeriesAStars(OrZero(metrics.stars))
       + SeriesATeam(OrZero(metrics.contributors))
       + SeriesAUsage(OrZero(metrics.dependents), OrZero(metrics.downloads))
       + SeriesAAge(created_at)
       + SeriesAFunding(funding_status)
       + SeriesACommercial(commercial_signals)

calculate_series_a_fit(metrics, funding_status, created_at, commercial_signals) ==
    Clamp(SeriesARaw(metrics, funding_status, created_at, commercial_signals))

----------------------------------------------------------------------------
(* The scoring specification: both scorers on bounded inputs *)

\* metric values on both sides of the scorers' thresholds
ScoreStars        == {None, Some(600), Some(6000), Some(60000)}
ScoreDownloads    == {None, Some(200000)}
ScoreDependents   == {None, Some(600)}
ScoreContributors == {None, Some(3), Some(60)}
\* (prs_30d, commits_3mo)
ScoreActivity     == {<<None, None>>, <<Some(60), Some(250)>>}

\* no growth record; a record of NULL rates; falling, moderate and viral rates
ScoreGrowth ==
    { None,
      Some([stars_mom |-> None, stars_acceleration |-> None, downloads_mom |-> None]),
      Some([stars_mom |-> Some(0 - 500), stars_acceleration |-> Some(0 - 200),
            downloads_mom |-> Some(2500)]),
      Some([stars_mom |-> Some(12000), stars_acceleration |-> Some(1500),
            downloads_mom |-> Some(6000)]) }

ScoreFunding  == {None, Some("unknown"), Some("seed"), Some("series-a")}
ScoreCategory == {Some("ai-ml"), Some("other")}

\* (repo_name, description)
ScoreTexts ==
    { <<Some(<<"a", "w", "e", "s", "o", "m", "e", "-", "t", "o", "o", "l", "s">>),
        Some(<<"A", " ", "c", "u", "r", "a", "t", "e", "d", " ", "l", "i", "s", "t", " ", "o", "f", " ", "a", "w", "e", "s", "o", "m", "e", " ", "t", "o", "o", "l", "s">>)>>,
      <<Some(<<"a", "w", "e", "s", "o", "m", "e", "-", "t", "o", "o", "l", "s">>), Some(<<>>)>>,
      <<Some(<<"f", "a", "s", "t", "k", "i", "t">>),
        Some(<<"F", "r", "a", "m", "e", "w", "o", "r", "k", " ", "f", "o", "r", " ", "b", "u", "i", "l", "d", "i", "n", "g", " ", "A", "P", "I", "s">>)>> }

ScoreCreatedAt ==
    { None,
      Some([form |-> "malformed", age_days |-> 0]),
      Some([form |-> "aware", age_days |-> 100]),
      Some([form |-> "aware", age_days |-> 1200]),
      Some([form |-> "naive", age_days |-> 800]),
      Some([form |-> "naive", age_days |-> 1200]) }

ScoreCommercial ==
    { None,
      Some([has_company |-> TRUE, has_pricing |-> TRUE, has_enterprise |-> TRUE,
            has_cloud |-> TRUE, has_docs_site |-> TRUE, commercial_score |-> 10]) }

ScoreMetrics ==
    { [stars |-> s, downloads |-> d, dependents |-> p, contributors |-> c,
       prs_30d |-> a[1], commits_3mo |-> a[2]] :
      s \in ScoreStars, d \in ScoreDownloads, p \in ScoreDependents,
      c \in ScoreContributors, a \in ScoreActivity }

InitScore ==
    /\ today = 0
    /\ snapshots = {}
    /\ growth_metrics = {}
    /\ ret = NoCall
    /\ InitWeb
    /\ \E metrics \in ScoreMetrics, growth \in ScoreGrowth, funding_status \in ScoreFunding,
          category \in ScoreCategory, text \in ScoreTexts, created_at \in ScoreCreatedAt,
          commercial_signals \in ScoreCommercial :
           args = [fn |-> "input", metrics |-> metrics, growth |-> growth,
                   funding_status |-> funding_status, category |-> category,
                   repo_name |-> text[1], description |-> text[2],
                   created_at |-> created_at, commercial_signals |-> commercial_signals,
                   investability_score |-> None, series_a_fit |-> None]

CallScorers ==
    /\ args.fn = "input"
    /\ args' = [args EXCEPT
           !.fn = "score",
           !.investability_score =
               Some(calculate_investability_score(args.metrics, args.growth,
                        args.funding_status, args.category, args.repo_name,
                        args.description, args.created_at)),
           !.series_a_fit =
               Some(calculate_series_a_fit(args.metrics, args.funding_status,
                        args.created_at, args.commercial_signals))]
    /\ UNCHANGED <<today, snapshots, growth_metrics, ret, web>>

NextScore == CallScorers

SpecScore == InitScore /\ [][NextScore]_vars

\* C8: for nonnegative metrics and every combination of growth, funding
\* stage, category, texts, age and commercial signals, the investability
\* score and the Series-A fit score are both in [0, 100].
C8_ScoresInRange ==
    args.fn = "score" =>
        /\ Val(args.investability_score) \in 0..100
        /\ Val(args.series_a_fit) \in 0..100

\* both scorers have answered for inputs whose unclamped sum leaves the range:
\* the investability sum is negative and the Series-A sum is above 100
C8_Witness ==
    /\ args.fn = "score"
    /\ InvestabilityRaw(args.metrics, args.growth, args.funding_status, args.category,
                        args.repo_name, args.description, args.created_at) < 0
    /\ SeriesARaw(args.metrics, args.funding_status, args.created_at,
                  args.commercial_signals) > 100
    /\ args.investability_score = Some(0)
    /\ args.series_a_fit = Some(100)

----------------------------------------------------------------------------
(* dashboard_v2.py: what the network answers                               *)
(* Catalog is what GitHub holds about the repositories a search can        *)
(* return: the fields of a search item, and the created_at, homepage and   *)
(* README the later requests answer. created_at is the text of an aware    *)
(* timestamp ("...Z") of day created_day.                                  *)

Catalog ==
    << [owner |-> <<"a", "c", "m", "e">>, name |-> <<"a", "w", "e", "s", "o", "m", "e", "-", "t", "o", "o", "l", "s">>,
        language |-> Some(<<"P", "y", "t", "h", "o", "n">>),
        description |-> Some(<<"A", " ", "c", "u", "r", "a", "t", "e", "d", " ", "l", "i", "s", "t", " ", "o", "f", " ", "a", "w", "e", "s", "o", "m", "e", " ", "t", "o", "o", "l", "s">>),
        topics |-> <<>>, stargazers_count |-> 120, forks_count |-> 9,
        created_at |-> Some([form |-> "aware", day |-> 0 - 100]),
        homepage |-> None, readme |-> None],
       [owner |-> <<"s", "u", "p", "a", "b", "a", "s", "e">>, name |-> <<"s", "u", "p", "a", "b", "a", "s", "e">>,
        language |-> Some(<<"T", "y", "p", "e", "S", "c", "r", "i", "p", "t">>),
        description |-> Some(<<"T", "h", "e", " ", "o", "p", "e", "n", " ", "s", "o", "u", "r", "c", "e", " ", "F", "i", "r", "e", "b", "a", "s", "e", " ", "a", "l", "t", "e", "r", "n", "a", "t", "i", "v", "e">>),
        topics |-> << <<"d", "a", "t", "a", "b", "a", "s", "e">> >>, stargazers_count |-> 100, forks_count |-> 0,
        created_at |-> Some([form |-> "aware", day |-> 0 - 1200]),
        homepage |-> Some(<<"h", "t", "t", "p", "s", ":", "/", "/", "s", "u", "p", "a", "b", "a", "s", "e", ".", "c", "o", "m">>),
        readme |-> Some(<<"P", "r", "i", "c", "i", "n", "g", " ", "a", "n", "d", " ", "c", "l", "o", "u", "d", " ", "h", "o", "s", "t", "e", "d", " ", "p", "l", "a", "n", "s">>)],
       [owner |-> <<"a", "c", "m", "e">>, name |-> <<"f", "o", "r", "k", "e", "d">>,
        language |-> Some(<<"P", "y", "t", "h", "o", "n">>), description |-> None,
        topics |-> <<>>, stargazers_count |-> 1, forks_count |-> 9,
        created_at |-> Some([form |-> "aware", day |-> 0 - 400]),
        homepage |-> None, readme |-> None],
       [owner |-> <<"a", "c", "m", "e">>, name |-> <<"n", "o", "t", "e", "s">>,
        language |-> None, description |-> None,
        topics |-> <<>>, stargazers_count |-> 110, forks_count |-> 2,
        created_at |-> Some([form |-> "aware", day |-> 0 - 400]),
        homepage |-> None, readme |-> None] >>

\* the lists search_all_segments() can return, as indices into Catalog
SearchResults == {<<>>, <<1>>, <<2, 3, 4, 1>>}

\* what the metric requests answer for one repository: a quiet and a busy
\* one. `downloads` is the answer of the package registry of the
\* repository's language, for the package name or for its alternative.
Observations ==
    { [stars |-> Some(600), forks |-> Some(30), contributors |-> Some(1),
       commits_3mo |-> None, issues_30d |-> 0, prs_30d |-> 0,
       dependents |-> None, downloads |-> None],
      [stars |-> Some(720), forks |-> Some(36), contributors |-> Some(4),
       commits_3mo |-> Some(40), issues_30d |-> 3, prs_30d |-> 6,
       dependents |-> Some(3), downloads |-> Some(33)] }

----------------------------------------------------------------------------
(* database.py: the repos table *)

\* f"{owner}/{name}"
FullName(owner, name) == owner \o <<"/">> \o name

\* (table, repo_id): the row with this full_name, or a new row whose id is
\* the next AUTOINCREMENT value
get_or_create_repo(table, owner, name, description, language) ==
    IF \E r \in table : FullName(r.owner, r.name) = FullName(owner, name)
    THEN [table |-> table,
          repo_id |-> (CHOOSE r \in table :
                          FullName(r.owner, r.name) = FullName(owner, name)).id]
    ELSE LET id == Cardinality(table) + 1
         IN  [table |-> table \cup
                  {[id |-> id, owner |-> owner, name |-> name,
                    description |-> description, language |-> language,
                    category |-> None, funding_status |-> None,
                    funding_amount |-> None, is_big_tech |-> FALSE]},
              repo_id |-> id]

\* UPDATE repos SET ... WHERE id = ?, with only the arguments that are not None
update_repo_metadata(table, repo_id, category, funding_status, funding_amount, big_tech, description, language) ==
    { IF r.id # repo_id THEN r
      ELSE [r EXCEPT
              !.category       = IF category # None THEN category ELSE @,
              !.funding_status = IF funding_status # None THEN funding_status ELSE @,
              !.funding_amount = IF funding_amount # None THEN funding_amount ELSE @,
              !.is_big_tech    = IF big_tech # None THEN Val(big_tech) ELSE @,
              !.description    = IF description # None THEN description ELSE @,
              !.language       = IF language # None THEN language ELSE @]
      : r \in table }

\* UPDATE growth_metrics SET traction_score = ?, investability_score = ?
\* WHERE repo_id = ? AND calculated_at = (SELECT MAX(calculated_at) ...)
UpdateScores(table, repo_id, traction_score, investability_score) ==
    { IF r.repo_id = repo_id
         /\ \A o \in table : o.repo_id = repo_id => o.calculated_at <= r.calculated_at
      THEN [r EXCEPT !.traction_score = Some(traction_score),
                     !.investability_score = Some(investability_score)]
      ELSE r
      : r \in table }

----------------------------------------------------------------------------
(* dashboard_v2.py: analyze_and_store_repo *)

\* the registry queried for a language, as the download_source it reports
RegistryOf(lang) ==
    IF lang \in {<<"t", "y", "p", "e", "s", "c", "r", "i", "p", "t">>,
                 <<"j", "a", "v", "a", "s", "c", "r", "i", "p", "t">>}
    THEN Some("npm/week")
    ELSE IF lang = <<"p", "y", "t", "h", "o", "n">> THEN Some("pypi/week")
    ELSE IF lang = <<"r", "u", "s", "t">> THEN Some("crates/90d")
    ELSE None

\* (language or metrics.get("language", "")).lower() raises AttributeError
\* when the search item and the details both have no language
FetchRaises(e) == e.language = None

\* the metrics dict when "Enrich with analysis" is reached: the keys the
\* function sets later are None
RawMetrics(e, obs) ==
    LET source == RegistryOf(Lower(Val(e.language)))
        found  == source # None /\ obs.downloads # None /\ Val(obs.downloads) # 0
    IN  [owner |-> e.owner, name |-> e.name,
         stars |-> obs.stars, forks |-> obs.forks,
         contributors |-> obs.contributors, commits_3mo |-> obs.commits_3mo,
         issues_30d |-> Some(obs.issues_30d), prs_30d |-> Some(obs.prs_30d),
         dependents |-> obs.dependents,
         downloads |-> IF found THEN obs.downloads ELSE None,
         download_source |-> IF found THEN source ELSE None,
         language |-> e.language, description |-> e.description,
         topics |-> e.topics, created_at |-> e.created_at, homepage |-> e.homepage,
         readme |-> None, is_big_tech |-> None, category |-> None,
         funding_status |-> None, funding_amount |-> None, funding_source |-> None,
         is_non_investable |-> None, non_investable_reason |-> None,
         commercial_signals |-> None, investability_score |-> None,
         series_a_fit |-> None, growth_metrics |-> None, stars_wow |-> None,
         stars_mom |-> None, stars_acceleration |-> None, traction_score |-> None]

\* the created_at text as the scorers read it on day `now`
AgeOn(created_at, now) ==
    IF created_at = None THEN None
    ELSE Some([form |-> Val(created_at).form, age_days |-> now - Val(created_at).day])

\* analysis.py: the text analyses of enrich_repo_data, lines 585-612
TextAnalyses(owner, name, description, topics, readme, homepage) ==
    [is_big_tech |-> is_big_tech(owner),
     category    |-> categorize_repo(description, topics, readme),
     funding     |-> detect_funding_status(owner, name, description),
     non_inv     |-> is_non_investable_repo(name, description),
     commercial  |-> detect_commercial_signals(description, readme, homepage)]

\* the analyses of the texts of each Catalog entry, with the README that
\* get_repo_readme answers for it
CatalogAnalyses ==
    [k \in 1..Len(Catalog) |->
        TextAnalyses(Catalog[k].owner, Catalog[k].name, Catalog[k].description,
                     Catalog[k].topics, Catalog[k].readme, Catalog[k].homepage)]

\* analysis.py: enrich_repo_data, where `readme` is what get_repo_readme
\* answers, `analyses` the TextAnalyses of the record's texts and `now` the
\* day of the call
enrich_repo_data(repo_data, readme, analyses, now) ==
    LET name        == repo_data.name
        description == repo_data.description
        category    == analyses.category
        funding     == analyses.funding
        created_at  == AgeOn(repo_data.created_at, now)
    IN  [repo_data EXCEPT
           !.is_big_tech = Some(analyses.is_big_tech),
           !.readme = readme,
           !.category = Some(category),
           !.funding_status = Some(funding.status),
           !.funding_amount = funding.amount,
           !.funding_source = funding.source,
           !.is_non_investable = Some(analyses.non_inv.flagged),
           !.non_investable_reason = analyses.non_inv.reason,
           !.commercial_signals = Some(analyses.commercial),
           !.investability_score =
               Some(calculate_investability_score(repo_data, repo_data.growth_metrics,
                        Some(funding.status), Some(category), Some(name), description,
                        created_at)),
           !.series_a_fit =
               Some(calculate_series_a_fit(repo_data, Some(funding.status), created_at,
                        Some(analyses.commercial)))]

\* "Recalculate investability with growth data": the call passes the
\* metrics, the growth, the funding status and the category, and leaves
\* repo_name, description and created_at at their default None
RecalculatedScore(metrics, growth) ==
    calculate_investability_score(metrics, growth, metrics.funding_status,
                                  metrics.category, None, None, None)

\* "Calculate traction score": int() of a sum whose only fraction is
\* downloads / 100
TractionScore(metrics) ==
    ( OrZero(metrics.dependents) * 1000 + OrZero(metrics.downloads)
      + OrZero(metrics.commits_3mo) * 500 + OrZero(metrics.contributors) * 2000
      + OrZero(metrics.prs_30d) * 5000 ) \div 100

\* A plausible slip: the stages in the order snapshot, growth,
\* classification, scorers.
PipelineStagesSnapshotFirst ==
    <<"upsert", "growth", "enrich", "metadata", "rescore", "persist">>

\* the stages of analyze_and_store_repo after the metrics are fetched, in
\* the order of its statements
PipelineStages == <<"enrich", "upsert", "metadata", "growth", "rescore", "persist">>

----------------------------------------------------------------------------
(* dashboard_v2.py: fetch_data and DashboardHandler *)

\* list.sort(key=..., reverse=True) on <<key, value>> pairs: descending,
\* equal keys keeping their order
RECURSIVE SortPairsDesc(_)
SortPairsDesc(pairs) ==
    IF pairs = <<>> THEN <<>>
    ELSE LET sorted == SortPairsDesc(SubSeq(pairs, 1, Len(pairs) - 1))
             x      == pairs[Len(pairs)]
             before == Cardinality({i \in 1..Len(sorted) : sorted[i][1] >= x[1]})
         IN  SubSeq(sorted, 1, before) \o <<x>> \o SubSeq(sorted, before + 1, Len(sorted))

\* the values of a sequence, sorted by their keys
SortDescBy(values, keys) ==
    LET sorted == SortPairsDesc([i \in 1..Len(values) |-> <<keys[i], values[i]>>])
    IN  [i \in 1..Len(sorted) |-> sorted[i][2]]

\* the elements of a sequence that satisfy `keep`, in order
RECURSIVE FilterIndices(_, _)
FilterIndices(items, keep) ==
    IF items = <<>> THEN <<>>
    ELSE (IF Head(items) \in keep THEN <<Head(items)>> ELSE <<>>)
           \o FilterIndices(Tail(items), keep)

\* "Skip repos with suspicious fork ratios": forks / stars > 5
SuspiciousForkRatio(e) ==
    e.stargazers_count > 0 /\ e.forks_count > 5 * e.stargazers_count

\* repos_to_analyze for a search result
ReposToAnalyze(all_repos) ==
    LET kept == FilterIndices(all_repos,
                    {k \in 1..Len(Catalog) : ~SuspiciousForkRatio(Catalog[k])})
    IN  SortDescBy(kept, [i \in 1..Len(kept) |-> Catalog[kept[i]].stargazers_count])

\* a dict of counts: how many of the keys are k, for each k among them
CountBy(keys) ==
    [k \in {keys[i] : i \in 1..Len(keys)} |->
        Cardinality({i \in 1..Len(keys) : keys[i] = k})]

\* r.get("download_source", "").startswith(prefix): the key is always
\* present, so the value is the one stored
TrackedBy(analyzed, source) ==
    Cardinality({i \in 1..Len(analyzed) : analyzed[i].download_source = Some(source)})

\* "Calculate stats"
StatsOf(analyzed) ==
    [total_repos |-> Len(analyzed),
     npm_tracked |-> TrackedBy(analyzed, "npm/week"),
     pypi_tracked |-> TrackedBy(analyzed, "pypi/week"),
     crates_tracked |-> TrackedBy(analyzed, "crates/90d"),
     by_language |-> CountBy([i \in 1..Len(analyzed) |->
                        IF Truthy(analyzed[i].language) THEN Val(analyzed[i].language)
                        ELSE <<"U", "n", "k", "n", "o", "w", "n">>]),
     by_category |-> CountBy([i \in 1..Len(analyzed) |->
                        IF analyzed[i].category # None THEN Val(analyzed[i].category)
                        ELSE "other"])]

\* None.startswith raises AttributeError for a record without download_source
StatsRaise(analyzed) ==
    \E i \in 1..Len(analyzed) : analyzed[i].download_source = None

\* no more threads than this are started
MaxThreads == 2

\* a thread that Thread.start() has created and that has not run yet
NewThread ==
    [pc |-> "start", todo |-> <<>>, i |-> 0, analyzed |-> <<>>, stage |-> 0,
     metrics |-> None, repo_id |-> None, growth |-> None, steps |-> <<>>]

\* the threads that have begun fetch_data and not left it
Running == {t \in 1..Len(threads) : threads[t].pc \notin {"start", "done"}}

\* the stage of analyze_and_store_repo thread t is about to execute
StageOf(t) ==
    IF threads[t].pc = "pipeline" THEN PipelineStages[threads[t].stage] ELSE "none"

\* thread t leaves a stage with these locals
Advance(t, locals) ==
    threads' = [threads EXCEPT ![t] =
                   [locals EXCEPT !.stage = @ + 1]]

\* GET /api/refresh
do_GET_refresh ==
    /\ app_state.is_loading \/ Len(threads) < MaxThreads
    /\ threads' = IF ~app_state.is_loading THEN Append(threads, NewThread) ELSE threads
    /\ resp' = [path |-> "/api/refresh", status |-> 200, body |-> "refreshing"]
    /\ UNCHANGED <<today, repos, snapshots, growth_metrics, app_state, ret, args>>

\* fetch_data, lines 403-404
fetch_data_begin(t) ==
    /\ threads[t].pc = "start"
    /\ app_state' = [app_state EXCEPT
           !.is_loading = TRUE,
           !.progress = [current |-> 0, total |-> 0, current_repo |-> <<>>,
                         phase |-> "searching"]]
    /\ threads' = [threads EXCEPT ![t].pc = "search"]
    /\ UNCHANGED <<today, repos, snapshots, growth_metrics, resp, ret, args>>

\* fetch_data, lines 406-444: the search, the fork-ratio filter and the sort;
\* with no repository found, line 416 clears is_loading
fetch_data_search(t) ==
    /\ threads[t].pc = "search"
    /\ \E all_repos \in SearchResults :
          IF all_repos = <<>>
          THEN /\ app_state' = [app_state EXCEPT !.is_loading = FALSE]
               /\ threads' = [threads EXCEPT ![t].pc = "no_repos"]
          ELSE LET repos_to_analyze == ReposToAnalyze(all_repos)
               IN  /\ app_state' = [app_state EXCEPT
                          !.progress.phase = "analyzing",
                          !.progress.total = Len(repos_to_analyze)]
                   /\ threads' = [threads EXCEPT ![t].pc = "loop",
                                                 ![t].todo = repos_to_analyze]
    /\ UNCHANGED <<today, repos, snapshots, growth_metrics, resp, ret, args>>

\* fetch_data, lines 417-418: the phase of the cycle that found nothing
fetch_data_no_repos(t) ==
    /\ threads[t].pc = "no_repos"
    /\ app_state' = [app_state EXCEPT !.progress.phase = "error"]
    /\ threads' = [threads EXCEPT ![t].pc = "finally"]
    /\ UNCHANGED <<today, repos, snapshots, growth_metrics, resp, ret, args>>

\* fetch_data, lines 446-454, and analyze_and_store_repo, lines 252-335: the
\* progress is updated and the metrics of the next repository are fetched;
\* an exception ends the iteration
analyze_next(t) ==
    /\ threads[t].pc = "loop"
    /\ threads[t].i < Len(threads[t].todo)
    /\ LET e == Catalog[threads[t].todo[threads[t].i + 1]]
       IN  /\ app_state' = [app_state EXCEPT
                  !.progress.current = threads[t].i + 1,
                  !.progress.current_repo = FullName(e.owner, e.name)]
           /\ IF FetchRaises(e)
              THEN threads' = [threads EXCEPT ![t].i = @ + 1]
              ELSE \E obs \in Observations :
                      threads' = [threads EXCEPT
                          ![t].pc = "pipeline", ![t].stage = 1,
                          ![t].metrics = Some(RawMetrics(e, obs)),
                          ![t].repo_id = None, ![t].growth = None,
                          ![t].steps = <<>>]
    /\ UNCHANGED <<today, repos, snapshots, growth_metrics, resp, ret, args>>

\* analyze_and_store_repo, line 338
Enrich(t) ==
    /\ StageOf(t) = "enrich"
    /\ LET k == threads[t].todo[threads[t].i + 1]
       IN  Advance(t, [threads[t] EXCEPT
               !.metrics = Some(enrich_repo_data(Val(@), Catalog[k].readme,
                                                 CatalogAnalyses[k], today)),
               !.steps = @ \o <<"classify", "score_investability", "score_series_a">>])
    /\ UNCHANGED <<today, repos, snapshots, growth_metrics, app_state, resp, ret, args>>

\* analyze_and_store_repo, lines 341-342
Upsert(t) ==
    /\ StageOf(t) = "upsert"
    /\ LET metrics == Val(threads[t].metrics)
           got     == get_or_create_repo(repos, metrics.owner, metrics.name,
                                         metrics.description, metrics.language)
           row     == SnapshotRow(got.repo_id, today, metrics)
       IN  /\ \/ \E r \in snapshots : SnapshotKey(r) = SnapshotKey(row)
              \/ Cardinality(snapshots) < MaxRows
           /\ repos' = got.table
           /\ snapshots' = InsertOrReplaceSnapshot(snapshots, row).table
           /\ Advance(t, [threads[t] EXCEPT
                  !.repo_id = Some(got.repo_id),
                  !.steps = @ \o <<"get_or_create_repo", "save_snapshot">>])
    /\ UNCHANGED <<today, growth_metrics, app_state, resp, ret, args>>

\* analyze_and_store_repo, lines 345-353
Metadata(t) ==
    /\ StageOf(t) = "metadata"
    /\ LET metrics == Val(threads[t].metrics)
       IN  repos' = update_repo_metadata(repos, Val(threads[t].repo_id),
                        metrics.category, metrics.funding_status,
                        metrics.funding_amount, metrics.is_big_tech,
                        metrics.description, metrics.language)
    /\ Advance(t, [threads[t] EXCEPT !.steps = @ \o <<"update_repo_metadata">>])
    /\ UNCHANGED <<today, snapshots, growth_metrics, app_state, resp, ret, args>>

\* analyze_and_store_repo, lines 356-361
Growth(t) ==
    /\ StageOf(t) = "growth"
    /\ LET repo_id == Val(threads[t].repo_id)
           growth  == GrowthOf(snapshots, repo_id, today)
       IN  /\ \/ growth = None
              \/ \E r \in growth_metrics : GrowthKey(r) = <<repo_id, today>>
              \/ Cardinality(growth_metrics) < MaxGrowthRows
           /\ growth_metrics' = GrowthTableAfter(growth_metrics, snapshots, repo_id, today)
           /\ Advance(t, [threads[t] EXCEPT
                  !.growth = growth,
                  !.metrics = IF growth = None THEN @
                              ELSE Some([Val(@) EXCEPT
                                      !.growth_metrics = growth,
                                      !.stars_wow = Val(growth).stars_wow,
                                      !.stars_mom = Val(growth).stars_mom,
                                      !.stars_acceleration = Val(growth).stars_acceleration]),
                  !.steps = @ \o <<"calculate_growth_metrics">>])
    /\ UNCHANGED <<today, repos, snapshots, app_state, resp, ret, args>>

\* analyze_and_store_repo, lines 357 and 362-365
Rescore(t) ==
    /\ StageOf(t) = "rescore"
    /\ Advance(t,
          IF threads[t].growth = None THEN threads[t]
          ELSE [threads[t] EXCEPT
                  !.metrics = Some([Val(@) EXCEPT !.investability_score =
                                  Some(RecalculatedScore(Val(threads[t].metrics),
                                                         threads[t].growth))]),
                  !.steps = @ \o <<"score_investability">>])
    /\ UNCHANGED <<today, repos, snapshots, growth_metrics, app_state, resp, ret, args>>

\* analyze_and_store_repo, lines 367-397, and fetch_data, line 463
Persist(t) ==
    /\ StageOf(t) = "persist"
    /\ LET metrics == [Val(threads[t].metrics) EXCEPT
                          !.traction_score = Some(TractionScore(Val(threads[t].metrics)))]
       IN  /\ growth_metrics' = UpdateScores(growth_metrics, Val(threads[t].repo_id),
                                    Val(metrics.traction_score),
                                    OrZero(metrics.investability_score))
           /\ threads' = [threads EXCEPT ![t] =
                  [@ EXCEPT !.pc = "loop", !.stage = 0, !.i = @ + 1,
                            !.metrics = Some(metrics),
                            !.analyzed = Append(@, metrics),
                            !.steps = @ \o <<"traction", "update_scores">>]]
    /\ UNCHANGED <<today, repos, snapshots, app_state, resp, ret, args>>

\* fetch_data, lines 470-515: the results are sorted and published; the
\* stats raise for a record without download_source, after repos and
\* last_updated are assigned
fetch_data_publish(t) ==
    /\ threads[t].pc = "loop"
    /\ threads[t].i = Len(threads[t].todo)
    /\ LET unsorted == threads[t].analyzed
           analyzed == SortDescBy(unsorted,
                          [i \in 1..Len(unsorted) |-> OrZero(unsorted[i].investability_score)])
       IN  /\ app_state' =
                  IF StatsRaise(analyzed)
                  THEN [app_state EXCEPT !.repos = analyzed,
                                         !.last_updated = Some(today),
                                         !.progress.phase = "error"]
                  ELSE [app_state EXCEPT
                          !.repos = analyzed,
                          !.last_updated = Some(today),
                          !.stats = StatsOf(analyzed),
                          !.snapshot_count = Cardinality(snapshots),
                          !.unique_repos_tracked =
                              Some(Cardinality({r.repo_id : r \in snapshots})),
                          !.progress.phase = "complete"]
           /\ threads' = [threads EXCEPT ![t].pc = "finally", ![t].analyzed = analyzed]
    /\ UNCHANGED <<today, repos, snapshots, growth_metrics, resp, ret, args>>

\* fetch_data, lines 517-518: the finally block clears is_loading first
fetch_data_finally(t) ==
    /\ threads[t].pc = "finally"
    /\ app_state' = [app_state EXCEPT !.is_loading = FALSE]
    /\ threads' = [threads EXCEPT ![t].pc = "reset"]
    /\ UNCHANGED <<today, repos, snapshots, growth_metrics, resp, ret, args>>

\* A plausible slip: the thread ends without the phase reset of line 519.
fetch_data_ends_without_reset(t) ==
    /\ threads[t].pc = "reset"
    /\ threads' = [threads EXCEPT ![t] = [NewThread EXCEPT !.pc = "done"]]
    /\ UNCHANGED <<today, repos, snapshots, growth_metrics, app_state, resp, ret, args>>

\* fetch_data, line 519: the finally block then resets the phase
fetch_data_reset(t) ==
    /\ threads[t].pc = "reset"
    /\ app_state' = [app_state EXCEPT !.progress.phase = "idle"]
    /\ threads' = [threads EXCEPT ![t] = [NewThread EXCEPT !.pc = "done"]]
    /\ UNCHANGED <<today, repos, snapshots, growth_metrics, resp, ret, args>>

Init ==
    /\ today = 0
    /\ snapshots = {}
    /\ growth_metrics = {}
    /\ ret = NoCall
    /\ InitWeb
    /\ args = NoArgs

\* one of the threads takes its next step
ThreadStep ==
    \/ \E t \in 1..Len(threads) : fetch_data_begin(t)
    \/ \E t \in 1..Len(threads) : fetch_data_search(t)
    \/ \E t \in 1..Len(threads) : fetch_data_no_repos(t)
    \/ \E t \in 1..Len(threads) : analyze_next(t)
    \/ \E t \in 1..Len(threads) : Enrich(t)
    \/ \E t \in 1..Len(threads) : Upsert(t)
    \/ \E t \in 1..Len(threads) : Metadata(t)
    \/ \E t \in 1..Len(threads) : Growth(t)
    \/ \E t \in 1..Len(threads) : Rescore(t)
    \/ \E t \in 1..Len(threads) : Persist(t)
    \/ \E t \in 1..Len(threads) : fetch_data_publish(t)
    \/ \E t \in 1..Len(threads) : fetch_data_finally(t)
    \/ \E t \in 1..Len(threads) : fetch_data_reset(t)

\* a month passes, at any point of a refresh cycle
MonthPasses == \E d \in MonthJumps : AdvanceDayBy(d)

Next ==
    \/ MonthPasses
    \/ do_GET_refresh
    \/ ThreadStep

Spec == Init /\ [][Next]_vars

----------------------------------------------------------------------------
(* Claims about the refresh cycle and the pipeline *)

\* C2: at most one refresh cycle is active at any time: no two threads are
\* inside fetch_data together, whatever the interleaving of refresh
\* requests and the background threads.
C2_AtMostOneCycle == Cardinality(Running) <= 1

\* every b in s has an a somewhere before it
Precedes(s, a, b) ==
    \A j \in 1..Len(s) : s[j] = b => \E i \in 1..(j - 1) : s[i] = a

IsPrefix(s, full) == Len(s) <= Len(full) /\ s = SubSeq(full, 1, Len(s))

\* the calls of one run of analyze_and_store_repo, in order
ActualSteps ==
    <<"classify", "score_investability", "score_series_a",
      "get_or_create_repo", "save_snapshot", "update_repo_metadata",
      "calculate_growth_metrics", "score_investability",
      "traction", "update_scores">>

C10_RecalculationKeepsPenalties ==
    [][\A t \in 1..Len(threads) :
          (StageOf(t) = "rescore" /\ threads'[t] # threads[t]
             /\ threads[t].growth # None) =>
              LET metrics == Val(threads[t].metrics)
              IN  Val(threads'[t].metrics).investability_score =
                      Some(calculate_investability_score(metrics, threads[t].growth,
                               metrics.funding_status, metrics.category,
                               Some(metrics.name), metrics.description,
                               AgeOn(metrics.created_at, today)))]_vars

\* the records analyze_and_store_repo has returned to the running cycles
ReturnedRecords ==
    UNION {{threads[t].analyzed[i] : i \in 1..Len(threads[t].analyzed)} :
              t \in 1..Len(threads)}

\* the growth record g was calculated when the repository had no snapshot
\* of an earlier day
NoEarlierSnapshot(g) ==
    ~\E r \in snapshots : r.repo_id = g.repo_id /\ r.snapshot_date < g.calculated_at

\* C11: the pipeline never aborts because growth is not yet computable: in
\* a cycle, every entity whose metrics were fetched has one returned record,
\* each returned record carries both scores, and the record of an entity
\* with no earlier snapshot has its week-over-week, month-over-month and
\* acceleration fields at None.
C11_NoPriorSnapshotNoAbort ==
    /\ \A t \in 1..Len(threads) :
           threads[t].pc = "loop" =>
               Len(threads[t].analyzed) =
                   Cardinality({j \in 1..threads[t].i :
                                   ~FetchRaises(Catalog[threads[t].todo[j]])})
    /\ \A m \in ReturnedRecords :
           /\ m.investability_score # None
           /\ m.series_a_fit # None
           /\ m.growth_metrics # None
           /\ NoEarlierSnapshot(Val(m.growth_metrics)) =>
                  /\ m.stars_wow = None
                  /\ m.stars_mom = None
                  /\ m.stars_acceleration = None
                  /\ Val(m.growth_metrics).stars_wow = None
                  /\ Val(m.growth_metrics).stars_mom = None
                  /\ Val(m.growth_metrics).stars_acceleration = None

\* a record has been returned for an entity whose only snapshot is the one
\* the pipeline has just written
C11_Witness ==
    \E m \in ReturnedRecords :
        /\ NoEarlierSnapshot(Val(m.growth_metrics))
        /\ m.stars \in {Some(600), Some(720)}
        /\ m.stars_wow = None
        /\ m.investability_score # None
        /\ m.series_a_fit # None

----------------------------------------------------------------------------
(* analysis.py: enrich_repo_data called on records with missing fields     *)
(* A dict is a record with all its keys, the absent ones listed in         *)
(* `absent`.                                                               *)

\* dict.get(key, default)
Get(d, key, default) == IF key \in d.absent THEN default ELSE d[key]

\* owner.lower() in is_big_tech and detect_funding_status, and name.lower()
\* in is_non_investable_repo, raise AttributeError for None; an absent key
\* reads as ''
EnrichRaises(repo_data) ==
    \/ Get(repo_data, "owner", Some(<<>>)) = None
    \/ Get(repo_data, "name", Some(<<>>)) = None

\* the record as enrich_repo_data reads it: .get(key, '') for the texts,
\* .get(key) or .get(key, 0) for the rest
ReadWithDefaults(repo_data) ==
    [repo_data EXCEPT
        !.owner = Val(Get(repo_data, "owner", Some(<<>>))),
        !.name = Val(Get(repo_data, "name", Some(<<>>))),
        !.description = Get(repo_data, "description", Some(<<>>)),
        !.topics = Get(repo_data, "topics", <<>>),
        !.homepage = Get(repo_data, "homepage", Some(<<>>)),
        !.created_at = Get(repo_data, "created_at", None),
        !.language = Get(repo_data, "language", None),
        !.stars = Get(repo_data, "stars", None),
        !.forks = Get(repo_data, "forks", None),
        !.contributors = Get(repo_data, "contributors", None),
        !.commits_3mo = Get(repo_data, "commits_3mo", None),
        !.issues_30d = Get(repo_data, "issues_30d", None),
        !.prs_30d = Get(repo_data, "prs_30d", None),
        !.dependents = Get(repo_data, "dependents", None),
        !.downloads = Get(repo_data, "downloads", None)]

\* enrich_repo_data(repo_data) on day `now`, where get_repo_readme answers
\* `readme`: the exception or the enriched record
EnrichOutcome(repo_data, readme, now) ==
    IF EnrichRaises(repo_data)
    THEN [raised |-> TRUE, result |-> None]
    ELSE LET d == ReadWithDefaults(repo_data)
         IN  [raised |-> FALSE,
              result |-> Some(enrich_repo_data(d, readme,
                                  TextAnalyses(d.owner, d.name, d.description,
                                               d.topics, readme, d.homepage),
                                  now))]

\* the keys of a metric record that hold text, and those that hold counts
TextKeys == {"owner", "name", "description", "language", "topics", "homepage", "created_at"}
CountKeys == {"stars", "forks", "contributors", "commits_3mo", "issues_30d", "prs_30d",
              "dependents", "downloads"}

\* a complete metric record
FullRecord ==
    [RawMetrics(Catalog[2], CHOOSE obs \in Observations : obs.stars = Some(720))
        EXCEPT !.description = Some(<<"A", " ", "c", "u", "r", "a", "t", "e", "d", " ", "l", "i", "s", "t", " ", "o", "f", " ", "a", "w", "e", "s", "o", "m", "e", " ", "t", "o", "o", "l", "s">>), !.name = <<"a", "w", "e", "s", "o", "m", "e", "-", "t", "o", "o", "l", "s">>]

\* FullRecord with the keys of `gone` absent and those of `none` None
WithMissing(gone, none) ==
    LET blank(k) == IF k = "topics" THEN <<>> ELSE None
        full == [FullRecord EXCEPT !.owner = Some(@), !.name = Some(@)]
    IN  [k \in DOMAIN full \cup {"absent"} |->
            IF k = "absent" THEN gone
            ELSE IF k \in gone \cup none THEN blank(k)
            ELSE full[k]]

\* the records tried: each text key absent, None or present, and the counts
\* all absent, all None or all present
EnrichInputs ==
    { WithMissing(gone \cup cg, none \cup cn) :
        gone \in SUBSET TextKeys,
        none \in SUBSET TextKeys,
        cg \in {{}, CountKeys}, cn \in {{}, CountKeys} }

InitEnrich ==
    /\ today = 0
    /\ snapshots = {}
    /\ growth_metrics = {}
    /\ ret = NoCall
    /\ InitWeb
    /\ \E repo_data \in EnrichInputs :
          args = [fn |-> "input", repo_data |-> repo_data, readme |-> None,
                  raised |-> FALSE, result |-> None]

\* enrich_repo_data(repo_data), with either answer of get_repo_readme
CallEnrich ==
    /\ args.fn = "input"
    /\ \E readme \in {None, Catalog[2].readme} :
          LET out == EnrichOutcome(args.repo_data, readme, today)
          IN  args' = [args EXCEPT !.fn = "enrich_repo_data", !.readme = readme,
                                   !.raised = out.raised, !.result = out.result]
    /\ UNCHANGED <<today, snapshots, growth_metrics, ret, web>>

NextEnrich == CallEnrich

SpecEnrich == InitEnrich /\ [][NextEnrich]_vars

\* C12: for every metric record in which any subset of the fields is absent
\* or None, enrichment and scoring complete and return an enriched record
\* with both scores; no absent field raises.
C12_MissingFieldsNeverRaise ==
    args.fn = "enrich_repo_data" =>
        /\ ~args.raised
        /\ args.result # None
        /\ Val(args.result).investability_score # None
        /\ Val(args.result).series_a_fit # None

----------------------------------------------------------------------------
(* The band specification: both scorers on the two sides of every          *)
(* threshold of the Series-A bands, the breakout bonus and the age penalty *)

BandStars        == {None, Some(199), Some(200), Some(499), Some(500), Some(999),
                     Some(1000), Some(30000), Some(30001), Some(50000), Some(50001)}
BandContributors == {None, Some(2), Some(3), Some(4), Some(5), Some(50), Some(51)}
\* (dependents, downloads)
BandUsage ==
    {<<None, None>>, <<None, Some(999)>>, <<None, Some(1000)>>, <<None, Some(9999)>>,
     <<None, Some(10000)>>}
      \cup {<<Some(n), None>> : n \in {9, 10, 19, 20, 49, 50}}
BandFunding      == {None, Some("unfunded"), Some("unknown"), Some("seed"),
                     Some("series-a"), Some("series-d"), Some("acquired")}

\* missing, empty and unparsable texts, and timestamps of both forms around
\* 3, 6, 24 and 36 months
BandCreatedAt ==
    {None, Some([form |-> "empty", age_days |-> 0]),
     Some([form |-> "malformed", age_days |-> 0])}
      \cup {Some([form |-> "aware", age_days |-> d]) : d \in {89, 90, 179, 180}}
      \cup {Some([form |-> "naive", age_days |-> d]) :
               d \in {179, 180, 720, 721, 1080, 1081}}

BandCommercial ==
    { None,
      Some([has_company |-> FALSE, has_pricing |-> TRUE, has_enterprise |-> FALSE,
            has_cloud |-> FALSE, has_docs_site |-> TRUE, commercial_score |-> 3]) }

InitBands ==
    /\ today = 0
    /\ snapshots = {}
    /\ growth_metrics = {}
    /\ ret = NoCall
    /\ InitWeb
    /\ \E stars \in BandStars, contributors \in BandContributors,
          usage \in BandUsage,
          funding_status \in BandFunding, created_at \in BandCreatedAt,
          commercial_signals \in BandCommercial :
           args = [fn |-> "input",
                   metrics |-> [stars |-> stars, downloads |-> usage[2],
                                dependents |-> usage[1], contributors |-> contributors,
                                prs_30d |-> Some(6), commits_3mo |-> Some(40)],
                   growth |-> None, funding_status |-> funding_status,
                   category |-> Some("other"),
                   repo_name |-> Some(<<"f", "a", "s", "t", "k", "i", "t">>),
                   description |-> Some(<<"A", "n", " ", "A", "P", "I", " ", "k", "i", "t">>),
                   created_at |-> created_at, commercial_signals |-> commercial_signals,
                   investability_score |-> None, series_a_fit |-> None]

NextBands == CallScorers

SpecBands == InitBands /\ [][NextBands]_vars

----------------------------------------------------------------------------
(* Claims about the investability scorer *)

\* the investability score of the answered call and what it was computed from
ScoreWithout(repo_name, description, created_at) ==
    InvestabilityRaw(args.metrics, args.growth, args.funding_status, args.category,
                     repo_name, description, created_at)

\* the filter flags the entity of the scored call
ScoredIsFlagged ==
    /\ args.repo_name # None
    /\ is_non_investable_repo(Val(args.repo_name), args.description).flagged

\* C13: whenever the non-investable filter flags the entity, by its name or
\* by its description, the investability score is the clamped sum of the
\* other terms minus 30; a flagged entity that also meets the abandoned
\* condition and has only star traction scores below 30.
C13_FlaggedCarriesPenalty ==
    (args.fn = "score" /\ ScoredIsFlagged) =>
        /\ Val(args.investability_score) =
               Clamp(ScoreWithout(None, None, args.created_at) - 30)
        /\ ( /\ OrZero(args.metrics.contributors) <= 1
             /\ OrZero(args.metrics.prs_30d) < 5
             /\ OrZero(args.metrics.commits_3mo) < 20
             /\ OrZero(args.metrics.downloads) = 0
             /\ OrZero(args.metrics.dependents) = 0
             /\ args.growth = None )
           => Val(args.investability_score) < 30

\* the score of the answered call as it would be with an age penalty of
\* `penalty` points: the other terms are those of the call
ScoreWithAgePenalty(penalty) ==
    Clamp(ScoreWithout(args.repo_name, args.description, None)
            + BreakoutBonus(args.created_at, OrZero(args.metrics.stars),
                            OrZero(args.metrics.dependents))
            - penalty)

\* C14: for an entity whose funding stage is unknown or unfunded the age
\* penalty is none up to 2 years (730 days), 10 points over 2 and up to 3
\* years (1095 days), and a deeper penalty of more than 10 points, applied
\* instead of the 10, over 3 years.
C14_AgePenaltyBrackets ==
    ( /\ args.fn = "score"
      /\ args.funding_status \in {Some("unknown"), Some("unfunded")}
      /\ ParsesCreatedAt(args.created_at) ) =>
        LET age_days == Val(args.created_at).age_days
            score    == Val(args.investability_score)
        IN  /\ age_days <= 730 => score = ScoreWithAgePenalty(0)
            /\ (age_days > 730 /\ age_days <= 1095) => score = ScoreWithAgePenalty(10)
            /\ age_days > 1095 =>
                   \E deeper \in 11..130 : score = ScoreWithAgePenalty(deeper)

\* the score of the answered call with a breakout bonus of `bonus` points:
\* the other terms, the age penalty among them, are those of the call
ScoreWithBonus(bonus) ==
    Clamp(ScoreWithout(args.repo_name, args.description, None)
            - AgePenalty(args.created_at, args.funding_status)
            + bonus)

\* C15: the breakout bonus is applied exactly when the entity is younger
\* than 180 days: +10 if stars >= 1000 or dependents >= 20, otherwise +5 if
\* stars >= 500 or dependents >= 10, otherwise 0; at 180 days or more there
\* is no bonus whatever the stars and dependents.
C15_BreakoutBonus ==
    (args.fn = "score" /\ ParsesCreatedAt(args.created_at)) =>
        LET age_days   == Val(args.created_at).age_days
            stars      == OrZero(args.metrics.stars)
            dependents == OrZero(args.metrics.dependents)
            score      == Val(args.investability_score)
        IN  /\ (age_days < 180 /\ (stars >= 1000 \/ dependents >= 20))
                  => score = ScoreWithBonus(10)
            /\ (age_days < 180 /\ ~(stars >= 1000 \/ dependents >= 20)
                  /\ (stars >= 500 \/ dependents >= 10))
                  => score = ScoreWithBonus(5)
            /\ (age_days < 180 /\ stars < 500 /\ dependents < 10)
                  => score = ScoreWithBonus(0)
            /\ age_days >= 180 => score = ScoreWithBonus(0)

\* a project of 179 days with 1000 stars has been scored with the bonus of
\* 10, which shows in the score
C15_Witness ==
    /\ args.fn = "score"
    /\ args.created_at = Some([form |-> "aware", age_days |-> 179])
    /\ args.metrics.stars = Some(1000)
    /\ Val(args.investability_score) = ScoreWithBonus(0) + 10

\* the investability sum of the answered call without any age-dependent term
AgelessInvestability ==
    LET m == args.metrics
    IN  StarsPoints(OrZero(m.stars)) + DownloadsPoints(OrZero(m.downloads))
          + DependentsPoints(OrZero(m.dependents))
          + ContributorsPoints(OrZero(m.contributors))
          + ActivityPoints(OrZero(m.prs_30d), OrZero(m.commits_3mo))
          + GrowthPoints(args.growth)
          + FundingGapPoints(args.funding_status, OrZero(m.stars), OrZero(m.downloads))
          + HotCategoryPoints(args.category)
          - NonInvestablePenalty(args.repo_name, args.description)
          - SingleMaintainerPenalty(OrZero(m.contributors), OrZero(m.prs_30d),
                                    OrZero(m.commits_3mo))

\* the Series-A sum of the answered call without the age band
AgelessSeriesA ==
    LET m == args.metrics
    IN  50 + SeriesAStars(OrZero(m.stars)) + SeriesATeam(OrZero(m.contributors))
           + SeriesAUsage(OrZero(m.dependents), OrZero(m.downloads))
           + SeriesAFunding(args.funding_status)
           + SeriesACommercial(args.commercial_signals)

\* C16: with a missing or unparsable creation date both scorers return a
\* score, and it is the score of the same inputs with every age-dependent
\* penalty and bonus contributing 0.
C16_BadDateSkipsAgeTerms ==
    ( /\ args.fn = "score"
      /\ \/ args.created_at = None
         \/ Val(args.created_at).form \in {"empty", "malformed"} ) =>
        /\ args.investability_score = Some(Max(0, Min(100, AgelessInvestability)))
        /\ args.series_a_fit = Some(Max(0, Min(100, AgelessSeriesA)))

\* both scorers have answered for an unparsable creation date and metrics
\* that would earn the breakout bonus at a young age
C16_Witness ==
    /\ args.fn = "score"
    /\ args.created_at = Some([form |-> "malformed", age_days |-> 0])
    /\ args.metrics.stars = Some(1000)
    /\ args.funding_status = Some("unknown")
    /\ Val(args.investability_score) > 0
    /\ Val(args.series_a_fit) > 0

----------------------------------------------------------------------------
(* The classification specification: the text functions of analysis.py on  *)
(* bounded texts                                                           *)

\* owners: unknown, big tech in mixed case, known funded
ClassifyOwners ==
   { <<"a", "c", "m", "e">>,
      <<"M", "i", "c", "r", "o", "s", "o", "f", "t">>,
      <<"s", "u", "p", "a", "b", "a", "s", "e">> }

\* names without and with a name pattern, one in mixed case
ClassifyNames ==
   { <<"a", "c", "m", "e", "-", "d", "b">>,
      <<"a", "w", "e", "s", "o", "m", "e", "-", "p", "y", "t", "h", "o", "n">>,
      <<"l", "e", "e", "t", "c", "o", "d", "e", "-", "s", "o", "l", "u", "t", "i", "o", "n", "s">>,
      <<"L", "e", "a", "r", "n", "-", "G", "o">> }

\* descriptions: missing, empty, with and without description patterns,
\* with keywords of one category, of two categories equally, of none
ClassifyDescriptions ==
   { None,
      Some(<<>>),
      Some(<<"A", " ", "c", "u", "r", "a", "t", "e", "d", " ", "l", "i", "s", "t", " ", "o", "f", " ", "P", "y", "t", "h", "o", "n", " ", "f", "r", "a", "m", "e", "w", "o", "r", "k", "s">>),
      Some(<<"A", " ", "r", "e", "a", "l", " ", "p", "r", "o", "d", "u", "c", "t", " ", "t", "h", "a", "t", " ", "d", "o", "e", "s", " ", "s", "o", "m", "e", "t", "h", "i", "n", "g">>),
      Some(<<"A", " ", "m", "a", "c", "h", "i", "n", "e", " ", "l", "e", "a", "r", "n", "i", "n", "g", " ", "f", "r", "a", "m", "e", "w", "o", "r", "k", " ", "f", "o", "r", " ", "N", "L", "P">>),
      Some(<<"K", "u", "b", "e", "r", "n", "e", "t", "e", "s", " ", "d", "e", "p", "l", "o", "y", "m", "e", "n", "t", " ", "a", "u", "t", "o", "m", "a", "t", "i", "o", "n">>),
      Some(<<"R", "e", "a", "c", "t", " ", "c", "o", "m", "p", "o", "n", "e", "n", "t", " ", "l", "i", "b", "r", "a", "r", "y">>),
      Some(<<"R", "e", "d", "i", "s", " ", "p", "r", "o", "x", "y">>),
      Some(<<"E", "n", "t", "e", "r", "p", "r", "i", "s", "e", " ", "S", "S", "O">>),
      Some(<<"I", "n", "t", "e", "r", "v", "i", "e", "w", " ", "p", "r", "e", "p", " ", "m", "a", "t", "e", "r", "i", "a", "l", "s">>),
      Some(<<"B", "a", "c", "k", "e", "d", " ", "b", "y", " ", "Y", "C", " ", "(", "Y", "C", " ", "W", "2", "1", ")">>) }

\* topics
ClassifyTopics ==
   { <<>>,
      <<<<"d", "a", "t", "a", "b", "a", "s", "e">>>>,
      <<<<"P", "a", "y", "m", "e", "n", "t">>, <<"b", "i", "l", "l", "i", "n", "g">>>> }

\* what get_repo_readme answers: nothing, company and cloud terms, one
\* enterprise term twice
ClassifyReadmes ==
   { None,
      Some(<<"O", "u", "r", " ", "t", "e", "a", "m", " ", "o", "f", "f", "e", "r", "s", " ", "a", " ", "h", "o", "s", "t", "e", "d", " ", "c", "l", "o", "u", "d">>),
      Some(<<"S", "S", "O", " ", "a", "n", "d", " ", "s", "s", "o", " ", "l", "o", "g", "i", "n">>) }

\* homepages: missing, empty, on the hosting platform (one in mixed case),
\* elsewhere
ClassifyHomepages ==
   { None,
      Some(<<>>),
      Some(<<"h", "t", "t", "p", "s", ":", "/", "/", "g", "i", "t", "h", "u", "b", ".", "c", "o", "m", "/", "a", "c", "m", "e", "/", "d", "b">>),
      Some(<<"h", "t", "t", "p", "s", ":", "/", "/", "G", "i", "t", "H", "u", "b", ".", "c", "o", "m", "/", "a", "c", "m", "e">>),
      Some(<<"h", "t", "t", "p", "s", ":", "/", "/", "a", "c", "m", "e", ".", "i", "o">>) }

InitClassify ==
    /\ today = 0
    /\ snapshots = {}
    /\ growth_metrics = {}
    /\ ret = NoCall
    /\ InitWeb
    /\ \E owner \in ClassifyOwners, name \in ClassifyNames,
          description \in ClassifyDescriptions, topics \in ClassifyTopics,
          readme \in ClassifyReadmes, homepage \in ClassifyHomepages :
           args = [fn |-> "input", owner |-> owner, name |-> name,
                   description |-> description, topics |-> topics,
                   readme |-> readme, homepage |-> homepage, analyses |-> None]

\* is_big_tech, categorize_repo, detect_funding_status,
\* is_non_investable_repo and detect_commercial_signals on the texts
CallClassify ==
    /\ args.fn = "input"
    /\ args' = [args EXCEPT
           !.fn = "classify",
           !.analyses = Some(TextAnalyses(args.owner, args.name, args.description,
                                          args.topics, args.readme, args.homepage))]
    /\ UNCHANGED <<today, snapshots, growth_metrics, ret, web>>

NextClassify == CallClassify

SpecClassify == InitClassify /\ [][NextClassify]_vars

----------------------------------------------------------------------------
(* Claims about the text functions *)

\* 1 for a set flag, 0 otherwise
Flag(b) == IF b THEN 1 ELSE 0

\* C17: commercial_score equals 2*has_pricing + 3*has_enterprise
\* + 2*has_cloud + 2*has_company + 1*has_docs_site, hence lies in [0, 10];
\* has_enterprise is set only when at least 2 distinct enterprise terms are
\* present, and has_docs_site only when a homepage outside the hosting
\* platform's domain is given.
C17_CommercialScore ==
    args.fn = "classify" =>
        LET c == Val(args.analyses).commercial
            terms == {i \in 1..Len(enterprise_keywords) :
                         Contains(enterprise_keywords[i],
                                  CommercialText(args.description, args.readme))}
        IN  /\ c.commercial_score =
                   2 * Flag(c.has_pricing) + 3 * Flag(c.has_enterprise)
                     + 2 * Flag(c.has_cloud) + 2 * Flag(c.has_company)
                     + 1 * Flag(c.has_docs_site)
            /\ c.commercial_score \in 0..10
            /\ c.has_enterprise => Cardinality(terms) >= 2
            /\ c.has_docs_site =>
                   /\ args.homepage # None
                   /\ Val(args.homepage) # <<>>
                   /\ ~Contains(<<"g", "i", "t", "h", "u", "b", ".", "c", "o", "m">>,
                                Lower(Val(args.homepage)))

\* the signals of a text with all four kinds of terms and a homepage of its
\* own have been detected: the score is the full 10
C17_Witness ==
    /\ args.fn = "classify"
    /\ Val(args.analyses).commercial.commercial_score = 10
    /\ Val(args.analyses).commercial.has_enterprise
    /\ Val(args.analyses).commercial.has_docs_site

\* the categories of the fixed closed set
Categories ==
    {"ai-ml", "devtools", "infrastructure", "data", "security", "observability",
     "frontend", "backend", "fintech", "other"}

\* the keyword score of the i-th category for the texts of the call: how
\* many of its keywords occur in the text
KeywordScore(i) ==
    Cardinality({k \in 1..Len(CATEGORY_KEYWORDS[i].keywords) :
                    Contains(CATEGORY_KEYWORDS[i].keywords[k],
                             CategoryText(args.description, args.topics, args.readme))})

\* C18: the classifier returns the category with the highest nonzero
\* keyword score, the first in the enumeration order among several with the
\* highest score, and other when no keyword matches; the result is always a
\* member of the closed category set.
C18_HighestScoreFirstInOrder ==
    args.fn = "classify" =>
        LET category == Val(args.analyses).category
            n        == Len(CATEGORY_KEYWORDS)
        IN  /\ category \in Categories
            /\ (\A i \in 1..n : KeywordScore(i) = 0) <=> category = "other"
            /\ \A i \in 1..n :
                  CATEGORY_KEYWORDS[i].category = category =>
                      /\ KeywordScore(i) > 0
                      /\ \A j \in 1..n : KeywordScore(j) <= KeywordScore(i)
                      /\ \A j \in 1..(i - 1) : KeywordScore(j) < KeywordScore(i)
            /\ (args.topics = <<>> /\ args.readme = None) =>
                  /\ args.description = Some(<<"A", " ", "m", "a", "c", "h", "i", "n", "e", " ", "l", "e", "a", "r", "n", "i", "n", "g", " ", "f", "r", "a", "m", "e", "w", "o", "r", "k", " ", "f", "o", "r", " ", "N", "L", "P">>) => category = "ai-ml"
                  /\ args.description = Some(<<"K", "u", "b", "e", "r", "n", "e", "t", "e", "s", " ", "d", "e", "p", "l", "o", "y", "m", "e", "n", "t", " ", "a", "u", "t", "o", "m", "a", "t", "i", "o", "n">>) => category = "infrastructure"

\* a text with one keyword of infrastructure and one of data, and none of
\* any other category, has been classified: the earlier category won
C18_Witness ==
    /\ args.fn = "classify"
    /\ \E i, j \in 1..Len(CATEGORY_KEYWORDS) :
          /\ i < j
          /\ CATEGORY_KEYWORDS[i].category = "infrastructure"
          /\ CATEGORY_KEYWORDS[j].category = "data"
          /\ KeywordScore(i) = 1
          /\ KeywordScore(j) = 1
          /\ \A k \in 1..Len(CATEGORY_KEYWORDS) : KeywordScore(k) <= 1
    /\ Val(args.analyses).category = "infrastructure"

\* the positions of the patterns of a list that occur in a text
Hits(patterns, text) == {i \in 1..Len(patterns) : Contains(patterns[i], text)}

\* the least member of a nonempty set of positions
Least(S) == CHOOSE i \in S : \A j \in S : i <= j

\* C19: the non-investable filter checks the name patterns before the
\* description patterns and stops at the first match: the reason names the
\* first matching name pattern whenever any name pattern matches, otherwise
\* the first matching description pattern; the result is flagged=false with
\* no reason exactly when no pattern of either list matches.
C19_NameBeforeDescription ==
    args.fn = "classify" =>
        LET r     == Val(args.analyses).non_inv
            names == Hits(name_patterns, Lower(args.name))
            descs == Hits(description_patterns, Lower(OrEmpty(args.description)))
        IN  /\ names # {} =>
                  /\ r.flagged
                  /\ r.reason = Some([list |-> "name",
                                      pattern |-> name_patterns[Least(names)]])
            /\ (names = {} /\ descs # {}) =>
                  /\ r.flagged
                  /\ r.reason = Some([list |-> "description",
                                      pattern |-> description_patterns[Least(descs)]])
            /\ (names = {} /\ descs = {}) <=> (~r.flagged /\ r.reason = None)
            /\ r.flagged <=> r.reason # None
            /\ (args.name = <<"a", "w", "e", "s", "o", "m", "e", "-", "p", "y", "t", "h", "o", "n">> /\ args.description = Some(<<"A", " ", "c", "u", "r", "a", "t", "e", "d", " ", "l", "i", "s", "t", " ", "o", "f", " ", "P", "y", "t", "h", "o", "n", " ", "f", "r", "a", "m", "e", "w", "o", "r", "k", "s">>)) => r.flagged
            /\ (args.name = <<"a", "c", "m", "e", "-", "d", "b">> /\ args.description = Some(<<"A", " ", "r", "e", "a", "l", " ", "p", "r", "o", "d", "u", "c", "t", " ", "t", "h", "a", "t", " ", "d", "o", "e", "s", " ", "s", "o", "m", "e", "t", "h", "i", "n", "g">>)) => ~r.flagged

\* a name with a name pattern and a description with a description pattern
\* have been checked: the reason is the name pattern
C19_Witness ==
    /\ args.fn = "classify"
    /\ Hits(name_patterns, Lower(args.name)) # {}
    /\ Hits(description_patterns, Lower(OrEmpty(args.description))) # {}
    /\ Val(Val(args.analyses).non_inv.reason).list = "name"

----------------------------------------------------------------------------
(* Claims about the Series-A fit scorer *)

\* the terms of the Series-A fit as the specification words them; a missing
\* metric counts as 0 and a month is 30 days
FitStarBand(stars) ==
    IF stars > 50000 THEN 0 - 15
    ELSE IF stars >= 30001 THEN 5
    ELSE IF stars >= 1000 THEN 15
    ELSE IF stars >= 500 THEN 10
    ELSE IF stars >= 200 THEN 0
    ELSE 0 - 10

FitContributorBand(contributors) ==
    IF contributors > 50 THEN 5
    ELSE IF contributors >= 5 THEN 10
    ELSE IF contributors >= 3 THEN 0
    ELSE 0 - 15

FitUsageBand(dependents, downloads) ==
    IF dependents >= 50 \/ downloads >= 10000 THEN 15
    ELSE IF dependents >= 10 \/ downloads >= 1000 THEN 10
    ELSE IF dependents # 0 \/ downloads # 0 THEN 5
    ELSE 0

FitAgeBand(created_at) ==
    IF created_at = None \/ Val(created_at).form \notin {"aware", "naive"} THEN 0
    ELSE LET age_days == Val(created_at).age_days
         IN  IF age_days > 36 * 30 THEN 0 - 10
             ELSE IF age_days > 24 * 30 THEN 0
             ELSE IF age_days >= 6 * 30 THEN 10
             ELSE IF age_days >= 3 * 30 THEN 5
             ELSE 0

FitFundingTerm(funding_status) ==
    CASE funding_status = Some("seed") -> 15
      [] funding_status = Some("unknown") -> 10
      [] funding_status \in {Some("series-a"), Some("series-b"), Some("series-c"),
                             Some("series-d")} -> 0 - 20
      [] OTHER -> 0

FitCommercialTerm(commercial_signals) ==
    IF commercial_signals = None THEN 0
    ELSE LET c == Val(commercial_signals)
         IN  c.commercial_score + (IF c.has_pricing THEN 5 ELSE 0)
                                + (IF c.has_enterprise THEN 5 ELSE 0)

FitSum ==
    50 + FitStarBand(OrZero(args.metrics.stars))
       + FitContributorBand(OrZero(args.metrics.contributors))
       + FitUsageBand(OrZero(args.metrics.dependents), OrZero(args.metrics.downloads))
       + FitAgeBand(args.created_at)
       + FitFundingTerm(args.funding_status)
       + FitCommercialTerm(args.commercial_signals)

\* C20: the Series-A fit score is 50 plus the star band, the contributor
\* band, the usage band, the age band, the funding term and the commercial
\* term, clamped to [0, 100].
C20_SeriesAFitIsClampedSum ==
    args.fn = "score" =>
        Val(args.series_a_fit) =
            (IF FitSum < 0 THEN 0 ELSE IF FitSum > 100 THEN 100 ELSE FitSum)

\* a late-round, old, oversized, single-maintainer project without usage has
\* been scored: every term is at its lowest and the sum is clamped at 0
C20_Witness ==
    /\ args.fn = "score"
    /\ args.funding_status = Some("series-d")
    /\ OrZero(args.metrics.stars) > 50000
    /\ OrZero(args.metrics.contributors) <= 2
    /\ FitAgeBand(args.created_at) = 0 - 10
    /\ FitSum < 0
    /\ Val(args.series_a_fit) = 0

----------------------------------------------------------------------------
(* Claims about what a reader of app_state sees during a refresh cycle.    *)
(* GET /api/data serialises app_state as it is at the moment of the        *)
(* request, so every reachable value of app_state is one a reader can see. *)

\* the enriched record is complete: the fields the pipeline fills are set
FullyEnriched(m) ==
    /\ m.category # None
    /\ m.funding_status # None
    /\ m.is_big_tech # None
    /\ m.is_non_investable # None
    /\ m.commercial_signals # None
    /\ m.investability_score # None
    /\ m.series_a_fit # None
    /\ m.traction_score # None

\* the entities a cycle tried before position i that raised
FailedBefore(t) ==
    {j \in 1..threads[t].i : FetchRaises(Catalog[threads[t].todo[j]])}

\* C22: during a refresh cycle a reader sees each entity's enriched record
\* as soon as the analysis of that entity has completed, while entities of
\* the list are still to be processed, and every record a reader sees is
\* fully enriched.
C22_VisibleAsCompleted ==
    /\ \A t \in 1..Len(threads) :
           (threads[t].pc \in {"loop", "pipeline"}
              /\ threads[t].i < Len(threads[t].todo)) =>
               \A i \in 1..Len(threads[t].analyzed) :
                   \E j \in 1..Len(app_state.repos) :
                       app_state.repos[j] = threads[t].analyzed[i]
    /\ \A j \in 1..Len(app_state.repos) : FullyEnriched(app_state.repos[j])

\* C24: an exception raised while one entity is analyzed does not end the
\* cycle: when the cycle has left its loop every entity of the list has
\* been tried, each one that did not raise has a record, the failing entity
\* has none in the published result set, and the phase is not "error".
C24_FailureSkipsOneEntity ==
    \A t \in 1..Len(threads) :
        (threads[t].pc = "finally" /\ threads[t].todo # <<>>
           /\ FailedBefore(t) # {}) =>
            /\ threads[t].i = Len(threads[t].todo)
            /\ Len(threads[t].analyzed) = threads[t].i - Cardinality(FailedBefore(t))
            /\ \A j \in FailedBefore(t), i \in 1..Len(threads[t].analyzed) :
                   FullName(threads[t].analyzed[i].owner, threads[t].analyzed[i].name)
                       # FullName(Catalog[threads[t].todo[j]].owner,
                                  Catalog[threads[t].todo[j]].name)
            /\ app_state.progress.phase # "error"

\* C26: whenever is_loading is false the phase is "idle", and whenever the
\* phase is "searching" or "analyzing" is_loading is true.
C26_NotLoadingIsIdle ==
    /\ ~app_state.is_loading => app_state.progress.phase = "idle"
    /\ app_state.progress.phase \in {"searching", "analyzing"} => app_state.is_loading

\* C27: when no refresh is in progress and a cycle has published a result
\* set, stats.total_repos is the number of records in repos.
C27_StatsDescribeRepos ==
    (Running = {} /\ ~app_state.is_loading /\ app_state.last_updated # None) =>
        app_state.stats.total_repos = Len(app_state.repos)

----------------------------------------------------------------------------
(* Claims about the snapshots the growth calculation compares *)

\* the repository's newest snapshot dated on or before `date`, which is the
\* current snapshot of a growth calculation on that date
NewestOnOrBefore(repo_id, date) ==
    CHOOSE r \in snapshots :
        /\ r.repo_id = repo_id /\ r.snapshot_date <= date
        /\ \A o \in snapshots :
               (o.repo_id = repo_id /\ o.snapshot_date <= date) =>
                   o.snapshot_date <= r.snapshot_date

\* the snapshots of the repository dated on or before `date` and strictly
\* before its current snapshot
EarlierSnapshots(repo_id, now, date) ==
    {r \in snapshots : /\ r.repo_id = repo_id
                       /\ r.snapshot_date <= date
                       /\ r.snapshot_date < NewestOnOrBefore(repo_id, now).snapshot_date}

\* C28: whenever the growth calculation yields a defined week-over-week or
\* month-over-month value, the snapshot it compared against is dated
\* strictly before the current snapshot: the repository has a snapshot on
\* or before T-7 (T-30 for month-over-month) that is older than the current
\* one.
C28_ComparedWithEarlierSnapshot ==
    (ret.op = "calculate_growth_metrics" /\ ret.result # None) =>
        LET g == Val(ret.result)
        IN  /\ (\E m \in {"stars_wow", "forks_wow", "downloads_wow", "contributors_wow"} :
                   g[m] # None)
                 => EarlierSnapshots(ret.repo_id, ret.date, ret.date - 7) # {}
            /\ (\E m \in {"stars_mom", "forks_mom", "downloads_mom", "contributors_mom"} :
                   g[m] # None)
                 => EarlierSnapshots(ret.repo_id, ret.date, ret.date - 30) # {}

----------------------------------------------------------------------------
(* Claims about the rows a pipeline run writes *)

\* thread t returns from analyze_and_store_repo in this step
Returns(t) ==
    /\ threads[t].pc = "pipeline"
    /\ Len(threads'[t].analyzed) = Len(threads[t].analyzed) + 1

\* the keys of the rows in which two values of a table differ
ChangedSnapshotKeys(old, new) == {SnapshotKey(r) : r \in (old \ new) \cup (new \ old)}
ChangedGrowthKeys(old, new) == {GrowthKey(r) : r \in (old \ new) \cup (new \ old)}

\* the date of thread t's run: the date of its growth calculation, and the
\* current date until that calculation is made
RunDate(t) ==
    IF threads[t].growth # None THEN Val(threads[t].growth).calculated_at ELSE today

\* C23: when the pipeline returns for an entity, the GrowthRecord of the
\* entity for the date of the run carries the investability score and the
\* traction score of the returned record, and no other GrowthRecord is
\* changed by the write of the scores.
C23_ScoresOnRecordOfRun ==
    [][\A t \in 1..Len(threads) :
          Returns(t) =>
              LET m  == threads'[t].analyzed[Len(threads'[t].analyzed)]
                  id == Val(threads[t].repo_id)
                  T  == Val(m.growth_metrics).calculated_at
              IN  /\ \E g \in growth_metrics' :
                         /\ GrowthKey(g) = <<id, T>>
                         /\ g.investability_score = m.investability_score
                         /\ g.traction_score = m.traction_score
                  /\ ChangedGrowthKeys(growth_metrics, growth_metrics') \subseteq {<<id, T>>}]_vars

\* C29: a step of the pipeline for entity E on date T changes no Snapshot
\* and no GrowthRecord other than those keyed (E, T): the rows of other
\* entities and the rows of E for other dates stay as they are.
C29_OtherRowsUnchanged ==
    [][\A t \in 1..Len(threads) :
          (threads[t].pc = "pipeline" /\ threads'[t] # threads[t]) =>
              IF threads'[t].repo_id = None
              THEN snapshots' = snapshots /\ growth_metrics' = growth_metrics
              ELSE LET id == Val(threads'[t].repo_id)
                   IN  /\ ChangedSnapshotKeys(snapshots, snapshots')
                              \subseteq {<<id, RunDate(t)>>}
                       /\ ChangedGrowthKeys(growth_metrics, growth_metrics')
                              \subseteq {<<id, RunDate(t)>>}]_vars

----------------------------------------------------------------------------
(* The batch specification: analyze_and_store_repo run to completion for   *)
(* one entity after another, as one refresh cycle does, on changing days   *)
(* and with changing repository details, and the history read of           *)
(* DashboardHandler between the runs                                       *)

\* what the search and the details request answer for an entity on one
\* pass: an entry of Catalog with the description and the language GitHub
\* holds at that time (the owner may edit or clear the description)
BatchDetails ==
    << Catalog[1],
      [Catalog[1] EXCEPT !.description = None],
      [Catalog[1] EXCEPT !.description = Some(<<"K", "u", "b", "e", "r", "n", "e", "t", "e", "s", " ", "d", "e", "p", "l", "o", "y", "m", "e", "n", "t", " ", "a", "u", "t", "o", "m", "a", "t", "i", "o", "n">>),
                         !.language = Some(<<"T", "y", "p", "e", "S", "c", "r", "i", "p", "t">>)],
      Catalog[2] >>

\* the analyses of the texts of each entry of BatchDetails
BatchAnalyses ==
    [k \in 1..Len(BatchDetails) |->
        TextAnalyses(BatchDetails[k].owner, BatchDetails[k].name,
                     BatchDetails[k].description, BatchDetails[k].topics,
                     BatchDetails[k].readme, BatchDetails[k].homepage)]

\* lines 357-379: the record with the growth metrics merged in, the score
\* recalculated when there is a growth record, and the traction score
RescoredWith(enriched, growth) ==
    LET grown    == IF growth = None THEN enriched
                    ELSE [enriched EXCEPT
                            !.growth_metrics = growth,
                            !.stars_wow = Val(growth).stars_wow,
                            !.stars_mom = Val(growth).stars_mom,
                            !.stars_acceleration = Val(growth).stars_acceleration]
        rescored == IF growth = None THEN grown
                    ELSE [grown EXCEPT !.investability_score =
                                     Some(RecalculatedScore(grown, growth))]
    IN  [rescored EXCEPT !.traction_score = Some(TractionScore(rescored))]

\* lines 381-397: the scores written to the growth record of the run
PersistRun(metrics, repo_id, table, snaps, written) ==
    [metrics |-> metrics, repo_id |-> repo_id, repos |-> table, snapshots |-> snaps,
     growth_metrics |-> UpdateScores(written, repo_id, Val(metrics.traction_score),
                                     OrZero(metrics.investability_score))]

\* line 356: calculate_growth_metrics, then the rescoring
GrowthRun(enriched, repo_id, table, snaps, now) ==
    PersistRun(RescoredWith(enriched, GrowthOf(snaps, repo_id, now)), repo_id, table,
               snaps, GrowthTableAfter(growth_metrics, snaps, repo_id, now))

\* lines 342-354: save_snapshot and update_repo_metadata
StoreRun(enriched, got, now) ==
    GrowthRun(enriched, got.repo_id,
              update_repo_metadata(got.table, got.repo_id, enriched.category,
                  enriched.funding_status, enriched.funding_amount,
                  enriched.is_big_tech, enriched.description, enriched.language),
              InsertOrReplaceSnapshot(snapshots,
                                      SnapshotRow(got.repo_id, now, enriched)).table,
              now)

\* line 341: get_or_create_repo
UpsertRun(enriched, now) ==
    StoreRun(enriched,
             get_or_create_repo(repos, enriched.owner, enriched.name,
                                enriched.description, enriched.language),
             now)

\* the record analyze_and_store_repo returns and the three tables it leaves,
\* for the entity and details e with the analyses of its texts and the
\* metric answers obs on day `now`
PipelineRun(e, analyses, obs, now) ==
    UpsertRun(enrich_repo_data(RawMetrics(e, obs), e.readme, analyses, now), now)

\* dashboard_v2.py: analyze_and_store_repo, lines 250-397
analyze_and_store_repo(k, obs) ==
    \E run \in {PipelineRun(BatchDetails[k], BatchAnalyses[k], obs, today)} :
        /\ ~FetchRaises(BatchDetails[k])
        /\ \/ \E r \in snapshots : SnapshotKey(r) = <<run.repo_id, today>>
           \/ Cardinality(snapshots) < MaxRows
        /\ \/ \E r \in growth_metrics : GrowthKey(r) = <<run.repo_id, today>>
           \/ Cardinality(growth_metrics) < MaxGrowthRows
        /\ repos' = run.repos
        /\ snapshots' = run.snapshots
        /\ growth_metrics' = run.growth_metrics
        /\ args' = [fn |-> "analyze_and_store_repo", repo_id |-> run.repo_id,
                    metrics |-> run.metrics]
        /\ UNCHANGED <<today, app_state, threads, resp, ret>>

AnalyzeAndStoreRepo == \E k \in 1..Len(BatchDetails), obs \in Observations : analyze_and_store_repo(k, obs)

\* the request paths of the history reads: an identity the pipeline
\* enriches, one it never sees, and a path without a name
HistoryPaths ==
    { <<"/", "a", "p", "i", "/", "h", "i", "s", "t", "o", "r", "y", "/", "a", "c", "m", "e", "/", "a", "w", "e", "s", "o", "m", "e", "-", "t", "o", "o", "l", "s">>,
      <<"/", "a", "p", "i", "/", "h", "i", "s", "t", "o", "r", "y", "/", "a", "c", "m", "e", "/", "g", "h", "o", "s", "t">>,
      <<"/", "a", "p", "i", "/", "h", "i", "s", "t", "o", "r", "y", "/", "a", "c", "m", "e">> }

\* str.split("/")
RECURSIVE SplitOnSlash(_)
SplitOnSlash(text) ==
    IF \A i \in 1..Len(text) : text[i] # "/" THEN <<text>>
    ELSE LET cut == CHOOSE i \in 1..Len(text) :
                        text[i] = "/" /\ \A j \in 1..(i - 1) : text[j] # "/"
         IN  <<SubSeq(text, 1, cut - 1)>> \o SplitOnSlash(SubSeq(text, cut + 1, Len(text)))

\* self.path.replace('/api/history/', '').split('/') for a path that starts
\* with the prefix and does not contain it again
HistoryParts(path) == SplitOnSlash(SubSeq(path, Len(<<"/", "a", "p", "i", "/", "h", "i", "s", "t", "o", "r", "y", "/">>) + 1, Len(path)))

\* ORDER BY snapshot_date ASC
RECURSIVE OrderByDateAsc(_)
OrderByDateAsc(rows) ==
    IF rows = {} THEN <<>>
    ELSE LET first == CHOOSE r \in rows :
                          \A o \in rows : r.snapshot_date <= o.snapshot_date
         IN  <<first>> \o OrderByDateAsc(rows \ {first})

\* database.py: get_snapshots(repo_id, days)
get_snapshots(snaps, repo_id, days, now) ==
    OrderByDateAsc({r \in snaps : r.repo_id = repo_id /\ r.snapshot_date >= now - days})

\* dashboard_v2.py: get_historical_data: (table, snapshots)
get_historical_data(owner, name) ==
    LET got == get_or_create_repo(repos, owner, name, None, None)
    IN  [table |-> got.table, snapshots |-> get_snapshots(snapshots, got.repo_id, 90, today)]

\* GET /api/history/<owner>/<name>
do_GET_history(path) ==
    LET parts == HistoryParts(path)
    IN  /\ IF Len(parts) >= 2
           THEN LET history == get_historical_data(parts[1], parts[2])
                IN  /\ repos' = history.table
                    /\ resp' = [path |-> path, status |-> 200, body |-> "history",
                                history |-> history.snapshots]
           ELSE /\ repos' = repos
                /\ resp' = [path |-> path, status |-> 400, body |-> "none", history |-> <<>>]
        /\ UNCHANGED <<today, snapshots, growth_metrics, app_state, threads, ret, args>>

DoGetHistory == \E path \in HistoryPaths : do_GET_history(path)

InitBatch ==
    /\ today = 0
    /\ snapshots = {}
    /\ growth_metrics = {}
    /\ ret = NoCall
    /\ InitWeb
    /\ args = NoArgs

NextBatch == MonthPasses \/ AnalyzeAndStoreRepo \/ DoGetHistory

SpecBatch == InitBatch /\ [][NextBatch]_vars

----------------------------------------------------------------------------
(* Claims about the repos table *)

\* the stored row of the entity the last pipeline run was for
StoredEntity == CHOOSE r \in repos : r.id = args.repo_id

\* C21: after an enrichment pass for an entity, the entity's stored
\* category, funding stage, big-tech flag, description and language are
\* the values that pass produced: nothing an earlier pass wrote is left.
C21_MetadataOfLastPass ==
    args.fn = "analyze_and_store_repo" =>
        /\ StoredEntity.category = args.metrics.category
        /\ StoredEntity.funding_status = args.metrics.funding_status
        /\ StoredEntity.is_big_tech = Val(args.metrics.is_big_tech)
        /\ StoredEntity.description = args.metrics.description
        /\ StoredEntity.language = args.metrics.language

\* C30: serving a history read changes neither the set of stored entities
\* and their metadata nor any Snapshot or GrowthRecord; in particular a
\* read for an identity that was never enriched creates no entity.
C30_HistoryReadChangesNothing ==
    [][(resp' # resp /\ resp'.body = "history") =>
           /\ repos' = repos
           /\ snapshots' = snapshots
           /\ growth_metrics' = growth_metrics]_vars

----------------------------------------------------------------------------
(* The cycle specification: the refresh requests and the background        *)
(* threads on one day, every started thread being scheduled again and      *)
(* again until it has left fetch_data (the metric requests return)         *)

NextCycle ==
    \/ do_GET_refresh
    \/ ThreadStep

\* some started thread has not left fetch_data; a thread at any position
\* other than "done" has a step it can take, so this is the state
\* predicate ENABLED <<ThreadStep>>_vars (ThreadStepEnabledIffRunning)
SomeThreadRuns ==
    \E t \in 1..Len(threads) : threads[t].pc # "done"

ThreadStepEnabledIffRunning ==
    SomeThreadRuns <=> ENABLED <<ThreadStep>>_vars

\* Weak fairness of the thread steps, WF_vars(ThreadStep), written out by
\* its definition []<>(~ENABLED <<ThreadStep>>_vars) \/ []<><<ThreadStep>>_vars
\* with SomeThreadRuns for the enabling condition: the interpreter goes on
\* running a started thread, and every request it makes returns.
ThreadsAreScheduled ==
    \/ []<>(~SomeThreadRuns)
    \/ []<><<ThreadStep>>_vars

SpecCycle ==
    Init /\ [][NextCycle]_vars /\ ThreadsAreScheduled

\* C25: every refresh cycle that starts eventually ends with is_loading
\* false and the phase "idle", whichever path it takes; and whenever
\* is_loading is false a refresh request starts a new cycle.
C25_CycleEndsIdle ==
    /\ \A t \in 1..MaxThreads :
           (t <= Len(threads) /\ threads[t].pc # "done")
               ~> (/\ t <= Len(threads)
                   /\ threads[t].pc = "done"
                   /\ ~app_state.is_loading
                   /\ app_state.progress.phase = "idle")
    /\ [][(do_GET_refresh /\ ~app_state.is_loading) =>
              threads' = Append(threads, NewThread)]_vars

\* two cycles have ended, the later one after publishing a result set
C25_Witness ==
    /\ Len(threads) = 2
    /\ \A t \in 1..2 : threads[t].pc = "done"
    /\ ~app_state.is_loading
    /\ app_state.progress.phase = "idle"
    /\ app_state.last_updated # None
    /\ app_state.progress.total > 0

====
